---- MODULE Spec2Model ----
(***************************************************************************)
(* Model of the freeform canvas engine of src/components/CanvasEditor.tsx  *)
(* (component CanvasEditor, lines 323-1960): the scene, the undo/redo      *)
(* history, the pointer/keyboard handlers that edit the scene, and the     *)
(* debounced persistence to the document store (convex/canvases.ts).       *)
(*                                                                         *)
(* React state and refs are the variables.  One action is one event        *)
(* handler (or effect, or timer / promise callback) run to completion,     *)
(* together with the re-render it causes: the "save when shapes change"    *)
(* effect (lines 425-429) is part of every action that calls setShapes.    *)
(* historyIndex is 0-based as in the source; history[historyIndex + 1] is  *)
(* the TLA+ element at that index.                                         *)
(* The styling fields of a shape (stroke, strokeWidth, fill) are set from  *)
(* the theme, are read only by the renderer, and are left out.             *)
(***************************************************************************)
EXTENDS Integers, Sequences, FiniteSets, TLC

(* ---------------------------- bounds ----------------------------------- *)
MaxShapes == 5      \* additions are refused once the scene has this many shapes
MaxHistory == 3     \* commits are refused once the history would exceed this length
MaxSaves == 2       \* updateCanvas calls issued in one behaviour
MaxIds == 3         \* ids generateId hands out in one behaviour
MaxStroke == 2      \* pointer moves a pen stroke records after its first point
MaxHitShapes == 3   \* shapes in a scene the hit test is probed on
MaxPan == 50        \* view offsets beyond this, either way, are not followed
MaxResults == 4                 \* results the document query delivers to the tldraw editor
MaxChanges == 3                 \* document changes the user makes in the tldraw editor

VARIABLES
    canvas,         \* useQuery(getCanvas): "undefined" | "null" | "doc"
    storeContent,   \* canvases.content held by the document store
    crashed,        \* an exception escaped a handler or effect
    isLoadingRef,   \* line 329
    lastSavedRef,   \* line 328
    saveTimeoutRef, \* line 327: "null", or whether the timer it names is
                    \* still pending ("live") or has fired ("dead")
    timers,         \* the closures of the pending setTimeout timers, in the
                    \* order they are due: each holds its shapesToSave
    inflight,       \* updateCanvas calls awaiting their result, oldest first
    saveCalls,      \* number of updateCanvas calls issued so far
    failedIdle,     \* line 416 logged a failed save while no timer was
                    \* pending, and no timer has fired since
    tool,           \* line 331
    shapes,         \* line 332
    selectedId,     \* line 333
    isDrawing,      \* line 334
    currentShape,   \* line 335
    startPoint,     \* line 336
    history,        \* line 337
    historyIndex,   \* line 338
    editingSticky,  \* line 340
    showMindMapPanel, \* line 342
    mindMapRootId,  \* line 343
    zoom,           \* line 346, in thousandths (1000 is zoom 1)
    panOffset,      \* line 347
    isPanning,      \* line 348
    isSpacePressed, \* line 349
    lastPanPoint,   \* line 350
    lastTouchDistance,  \* line 351
    lastTouchCenter,    \* line 352
    stageSize,      \* line 339
    mounted,        \* the component is mounted
    tldraw,         \* the tldraw-backed editor: its refs, its module
                    \* state and its query result (lines 1961-1979)
    nextId,         \* generateId: number of ids handed out so far
    lastEvent       \* what the handler that ran last did: the edit it
                    \* committed, "cancel" for a prompt given up, "none"
                    \* for a handler that left scene and history alone

persistVars == <<canvas, storeContent, crashed, isLoadingRef,
                 lastSavedRef, saveTimeoutRef, timers, inflight,
                 saveCalls, failedIdle>>
sceneVars == <<shapes, history, historyIndex>>
timerVars == <<timers, saveTimeoutRef>>
uiVars == <<tool, selectedId, isDrawing, currentShape, startPoint,
            editingSticky, showMindMapPanel, mindMapRootId>>
viewVars == <<zoom, panOffset, isPanning, isSpacePressed, lastPanPoint,
              lastTouchDistance, lastTouchCenter>>
vars == <<persistVars, sceneVars, uiVars, viewVars, mounted, stageSize, tldraw, nextId,
          lastEvent>>

Null == 0                       \* null / undefined for ids (generated ids are >= 1)
NoPoint == <<-1, -1>>           \* null for startPoint
NoShape == [id |-> Null, type |-> "none"]   \* null for currentShape

(* ------------------------- document content ---------------------------- *)
(* A content string is modelled by what JSON.parse makes of it:            *)
(*   kind "empty"      the empty string (falsy: line 386 substitutes the   *)
(*                     default document);                                  *)
(*   kind "malformed"  text JSON.parse throws on;                          *)
(*   kind "object"     valid JSON with no "shapes" array, such as the "{}" *)
(*                     createCanvas stores;                                *)
(*   kind "doc"        {"shapes":[...]}; pad counts the insignificant      *)
(*                     characters (white space) the text has beyond what   *)
(*                     JSON.stringify emits, so pad = 0 is the canonical   *)
(*                     text and two contents are the same string exactly   *)
(*                     when they are the same record.                      *)
Content(kind, shs, pad) == [kind |-> kind, shapes |-> shs, pad |-> pad]

EmptyString == Content("empty", <<>>, 0)
MalformedContent == Content("malformed", <<>>, 0)
CreatedContent == Content("object", <<>>, 0)

\* The properties of a shape that JSON.stringify writes: a property whose
\* value is undefined is left out, one whose value is null is written as
\* null. The only property a shape may hold undefined in is the optional
\* fill (line 64); parentId is string | null (line 116).
OptionalKeys == {"fill"}
Undefined == "<undefined>"
Written(s, k) == ~(k \in OptionalKeys /\ s[k] = Undefined)

\* A serialization that treats null as it treats undefined.
JSONshape_DropNull(s) ==
    [k \in {k \in DOMAIN s : Written(s, k) /\ ~(k = "parentId" /\ s[k] = Null)}
        |-> s[k]]

\* What JSON.parse reads back from the text JSON.stringify writes for one
\* shape: strings, booleans, null, finite numbers and arrays of them are
\* read back as they were.
JSONshape(s) == [k \in {k \in DOMAIN s : Written(s, k)} |-> s[k]]

\* JSON.stringify({ shapes }) (line 410): the canonical text of the scene.
JSONstringify(shs) ==
    Content("doc", [i \in 1..Len(shs) |-> JSONshape(shs[i])], 0)

\* JSON.parse(content) (line 387): throws on text that is not JSON;
\* otherwise the parsed object, with its shapes array if it has one.
JSONparse(content) ==
    CASE content.kind \in {"malformed", "empty"} ->
            [threw |-> TRUE, hasShapes |-> FALSE, shapes |-> <<>>]
      [] content.kind = "object" ->
            [threw |-> FALSE, hasShapes |-> FALSE, shapes |-> <<>>]
      [] OTHER ->
            [threw |-> FALSE, hasShapes |-> TRUE, shapes |-> content.shapes]

(* ------------------------------ shapes -------------------------------- *)
RectangleShape(id, x, y, w, h) ==
    [id |-> id, type |-> "rectangle", x |-> x, y |-> y, width |-> w, height |-> h]
CircleShape(id, x, y, radius) ==
    [id |-> id, type |-> "circle", x |-> x, y |-> y, radius |-> radius]
LineShape(id, points) ==
    [id |-> id, type |-> "line", x |-> 0, y |-> 0, points |-> points]
FreehandShape(id, points) ==
    [id |-> id, type |-> "freehand", x |-> 0, y |-> 0, points |-> points]
TextShape(id, x, y, text) ==
    [id |-> id, type |-> "text", x |-> x, y |-> y, text |-> text, fontSize |-> 20]
StickyNoteShape(id, x, y, w, h, text, colorIndex) ==
    [id |-> id, type |-> "sticky", x |-> x, y |-> y, width |-> w, height |-> h,
     text |-> text, colorIndex |-> colorIndex]
MindMapNodeShape(id, x, y, w, h, text, parentId, isRoot) ==
    [id |-> id, type |-> "mindmapNode", x |-> x, y |-> y, width |-> w,
     height |-> h, text |-> text, parentId |-> parentId, isRoot |-> isRoot,
     collapsed |-> FALSE]
ConnectorShape(id, fromId, toId, points) ==
    [id |-> id, type |-> "connector", x |-> 0, y |-> 0, fromId |-> fromId,
     toId |-> toId, points |-> points]

Min(a, b) == IF a <= b THEN a ELSE b
Max(a, b) == IF a >= b THEN a ELSE b

(* Scene points.  A pointer position is drawn from ClickPoints, in scene   *)
(* coordinates (getMousePos, lines 511-521, with the initial view          *)
(* transform zoom = 1, panOffset = (0,0), which these handlers leave       *)
(* alone).                                                                 *)
ClickPoints == {<<0, 0>>, <<200, 0>>}
OnePoint == {<<0, 0>>}

\* prompt(): null on cancel, "" on an empty entry, the text otherwise.
PromptCancel == "<null>"
PromptResults == {PromptCancel, "", "a"}
Falsy(text) == text = PromptCancel \/ text = ""

\* String.prototype.length of the texts the model enters.
Length(text) == IF text = "" THEN 0 ELSE 1

\* ctx.measureText(text).width (line 680): 8 units a character here.
MeasureText(text) == 8 * Length(text)

\* lines 524-584.  The index (1-based) of the shape findShapeAtPosition
\* returns for pos in scene shs, 0 for null: the last shape whose
\* containment test accepts pos.
Contains(shape, pos) ==
    CASE shape.type \in {"rectangle", "sticky", "noteEmbed", "mindmapNode"} ->
            /\ pos[1] >= shape.x
            /\ pos[1] <= shape.x + shape.width
            /\ pos[2] >= shape.y
            /\ pos[2] <= shape.y + shape.height
      [] shape.type \in {"freehand", "line", "connector"} ->
            LET n == Len(shape.points) \div 2
                xs == {shape.points[2 * j - 1] : j \in 1..n}
                ys == {shape.points[2 * j] : j \in 1..n}
            IN  \* an empty point list leaves minX = Infinity: no hit
                /\ n > 0
                /\ \E px \in xs : (\A qx \in xs : px <= qx) /\ pos[1] >= px - 10
                /\ \E px \in xs : (\A qx \in xs : px >= qx) /\ pos[1] <= px + 10
                /\ \E py \in ys : (\A qy \in ys : py <= qy) /\ pos[2] >= py - 10
                /\ \E py \in ys : (\A qy \in ys : py >= qy) /\ pos[2] <= py + 10
      [] shape.type = "circle" ->
            \* Math.sqrt(dx * dx + dy * dy) <= radius, squared
            /\ shape.radius >= 0
            /\ (pos[1] - shape.x) * (pos[1] - shape.x)
                 + (pos[2] - shape.y) * (pos[2] - shape.y)
                   <= shape.radius * shape.radius
      [] shape.type = "text" ->
            \* textWidth = text.length * fontSize * 0.6, compared in tenths
            /\ pos[1] >= shape.x
            /\ 10 * (pos[1] - shape.x) <= 6 * Length(shape.text) * shape.fontSize
            /\ pos[2] >= shape.y - shape.fontSize
            /\ pos[2] <= shape.y
      [] OTHER -> FALSE

\* The loop of lines 525-582 from index i down: the first index whose
\* containment test accepts pos, 0 when the loop runs out.
RECURSIVE ScanDown(_, _, _)
ScanDown(shs, i, pos) ==
    IF i = 0 THEN 0
    ELSE IF Contains(shs[i], pos) THEN i
    ELSE ScanDown(shs, i - 1, pos)

\* The same loop run from index i up.
RECURSIVE ScanUp(_, _, _)
ScanUp(shs, i, pos) ==
    IF i > Len(shs) THEN 0
    ELSE IF Contains(shs[i], pos) THEN i
    ELSE ScanUp(shs, i + 1, pos)

\* findShapeAtPosition iterating from the first shape.
findShapeAtPosition_FirstWins(shs, pos) == ScanUp(shs, 1, pos)

\* lines 524-584: for (let i = shapes.length - 1; i >= 0; i--).
findShapeAtPosition(shs, pos) == ScanDown(shs, Len(shs), pos)


\* The filter looking at a connector's fromId only.
RemoveWithConnectors_FromOnly(shs, id) ==
    SelectSeq(shs, LAMBDA s :
        /\ s.id # id
        /\ ~(s.type = "connector" /\ s.fromId = id))

\* The filter removing the shape alone.
RemoveWithConnectors_ShapeOnly(shs, id) ==
    SelectSeq(shs, LAMBDA s : s.id # id)

\* lines 828-835 (mouse eraser), 1084-1091 (touch eraser), 1547-1554
\* (Delete / Backspace): the scene without the shape id and without the
\* connectors attached to it.
RemoveWithConnectors(shs, id) ==
    SelectSeq(shs, LAMBDA s :
        /\ s.id # id
        /\ ~(s.type = "connector" /\ (s.fromId = id \/ s.toId = id)))

\* getStickyDimensions as a plain share of the stage width.
getStickyDimensions_Unclamped(screenWidth) ==
    LET width == (screenWidth * 2) \div 10
    IN  [width |-> width, height |-> (width * 7) \div 10]

\* lines 586-607, for a stage screenWidth wide.
getStickyDimensions(screenWidth) ==
    IF screenWidth < 400 THEN
        LET width == Max(120, (screenWidth * 35) \div 100)
        IN  [width |-> width, height |-> Max(100, (width * 8) \div 10)]
    ELSE IF screenWidth < 768 THEN
        LET width == Max(150, Min(200, (screenWidth * 3) \div 10))
        IN  [width |-> width, height |-> Max(120, (width * 75) \div 100)]
    ELSE
        LET width == Max(180, Min(280, (screenWidth * 2) \div 10))
        IN  [width |-> width, height |-> Max(140, Min(220, (width * 7) \div 10))]

\* lines 666-694.
getMindMapNodeDimensions(text, isRoot) ==
    LET minWidth == IF isRoot THEN 100 ELSE 80
        maxWidth == 300
        padding == 32
        calculatedWidth == MeasureText(text) + padding
    IN  [width |-> Max(minWidth, Min(maxWidth, calculatedWidth)),
         height |-> IF isRoot THEN 50 ELSE 40]

StageWidth == 800               \* stageSize.width, line 339
StageHeight == 600              \* stageSize.height, line 339
ColorChoices == {0, 5}          \* Math.random() picks among 0..5; the ends

\* generateId (lines 319-321): the k-th id handed out by this handler.
generateId(k) == nextId + k

(* ------------------------- persistence bridge -------------------------- *)
\* lines 405-407: clearTimeout(saveTimeoutRef.current) takes the timer the
\* ref names, the one set last, out of the pending timers.
clearTimeout ==
    IF saveTimeoutRef = "live" THEN SubSeq(timers, 1, Len(timers) - 1)
    ELSE timers


\* saveContent without its clearTimeout: the earlier timer stays pending.
saveContent_NoClear(newShapes, loading) ==
    IF loading THEN UNCHANGED <<timers, saveTimeoutRef>>
    ELSE /\ timers' = Append(timers, newShapes)
         /\ saveTimeoutRef' = "live"

\* lines 403-429: the effect "save when shapes change" and saveContent,
\* run after a handler that called setShapes(newShapes); loading is
\* isLoadingRef.current when the effect runs.
saveContent(newShapes, loading) ==
    IF loading THEN UNCHANGED <<timers, saveTimeoutRef>>
    ELSE /\ timers' = Append(clearTimeout, newShapes)
         /\ saveTimeoutRef' = "live"

\* setShapes(newShapes) in a handler after load, and the save effect.
setShapes(newShapes) ==
    /\ shapes' = newShapes
    /\ saveContent(newShapes, isLoadingRef)


\* addToHistory appending to the whole history, without the slice.
addToHistory_NoTruncate(newShapes) ==
    /\ history' = Append(history, newShapes)
    /\ historyIndex' = historyIndex + 1

\* addToHistory slicing one entry short: prev.slice(0, historyIndex).
addToHistory_SliceShort(newShapes) ==
    /\ history' = Append(SubSeq(history, 1, historyIndex), newShapes)
    /\ historyIndex' = historyIndex + 1

\* lines 432-439.
addToHistory(newShapes) ==
    /\ history' = Append(SubSeq(history, 1, historyIndex + 1), newShapes)
    /\ historyIndex' = historyIndex + 1


\* A handler's edit: setShapes(newShapes); addToHistory(newShapes).
CommitShapes(newShapes) ==
    /\ setShapes(newShapes)
    /\ addToHistory(newShapes)

\* The history has room for one more commit.
CanCommit == historyIndex + 2 <= MaxHistory

storeVars == <<canvas, storeContent, crashed, isLoadingRef, lastSavedRef,
               inflight, saveCalls, failedIdle>>

(* ------------------------------- Init ---------------------------------- *)
\* A scene an earlier session saved: a mind-map root, one child, and the
\* connector between them (ids of earlier sessions are 101..).
SavedScene ==
    << MindMapNodeShape(101, -50, -25, 100, 50, "a", Null, TRUE),
       MindMapNodeShape(102, 150, -25, 80, 40, "a", 101, FALSE),
       ConnectorShape(103, 101, 102, <<50, 0, 150, -5>>) >>

StoredContents ==
    { CreatedContent, EmptyString, MalformedContent,
      JSONstringify(<<>>), JSONstringify(SavedScene),
      Content("doc", <<>>, 1), Content("doc", SavedScene, 1) }

\* lines 1961-1979: the refs and state of the tldraw-backed component
\* before its first effect has run.  canvas is 0 while the query is
\* undefined and n once its n-th result has arrived; lastSaved is "" as
\* lastSavedRef starts, "remote" for content read from the query and
\* "local" for a snapshot this editor saved.  hydrates, changes and
\* scheduled count the runs of the initial hydrate, the document changes
\* of the user and the calls of saveContent.
TldrawInit ==
    [module |-> FALSE, loadError |-> FALSE, canvas |-> 0, editor |-> FALSE,
     isLoading |-> TRUE, didInitialHydrate |-> FALSE, lastSaved |-> "",
     timer |-> FALSE, hydrates |-> 0, changes |-> 0, scheduled |-> 0]

InitWith(contents) ==
    /\ canvas = "undefined"
    /\ storeContent \in contents
    /\ crashed = FALSE
    /\ isLoadingRef = TRUE
    /\ lastSavedRef = EmptyString
    /\ saveTimeoutRef = "null"
    /\ timers = <<>>
    /\ inflight = <<>>
    /\ saveCalls = 0
    /\ failedIdle = FALSE
    /\ tool = "select"
    /\ shapes = <<>>
    /\ selectedId = Null
    /\ isDrawing = FALSE
    /\ currentShape = NoShape
    /\ startPoint = NoPoint
    /\ history = << <<>> >>
    /\ historyIndex = 0
    /\ editingSticky = Null
    /\ showMindMapPanel = FALSE
    /\ mindMapRootId = Null
    /\ zoom = 1000
    /\ panOffset = <<0, 0>>
    /\ isPanning = FALSE
    /\ isSpacePressed = FALSE
    /\ lastPanPoint = NoPoint
    /\ lastTouchDistance = Null
    /\ lastTouchCenter = NoPoint
    /\ stageSize = [width |-> StageWidth, height |-> StageHeight]
    /\ mounted = TRUE
    /\ tldraw = TldrawInit
    /\ nextId = 0
    /\ lastEvent = "mount"

(* ------------------------------- load ---------------------------------- *)

\* The load effect without its finally block: a parse error leaves the
\* loading flag set.
Load_NoFinally ==
    /\ mounted
    /\ canvas = "undefined"
    /\ isLoadingRef
    /\ canvas' = "doc"
    /\ LET content == IF storeContent.kind = "empty"
                      THEN JSONstringify(<<>>) ELSE storeContent
           parsed == JSONparse(content)
       IN  IF parsed.threw THEN
               /\ shapes' = <<>>
               /\ saveContent(<<>>, TRUE)
               /\ UNCHANGED <<history, historyIndex, lastSavedRef, isLoadingRef>>
               /\ lastEvent' = "load:catch"
           ELSE IF parsed.hasShapes THEN
               /\ shapes' = parsed.shapes
               /\ history' = <<parsed.shapes>>
               /\ historyIndex' = 0
               /\ lastSavedRef' = content
               /\ saveContent(parsed.shapes, FALSE)
               /\ isLoadingRef' = FALSE
               /\ lastEvent' = "load:shapes"
           ELSE
               /\ lastSavedRef' = content
               /\ isLoadingRef' = FALSE
               /\ UNCHANGED <<shapes, history, historyIndex, timerVars>>
               /\ lastEvent' = "load:noShapes"
    /\ UNCHANGED <<viewVars, mounted, stageSize, tldraw, storeContent, crashed, inflight,
                   saveCalls, failedIdle, uiVars, nextId>>

\* lines 381-400: the getCanvas query delivers the document and the load
\* effect hydrates the scene; the render that follows runs the save effect
\* if the scene state was set.
Load ==
    /\ mounted
    /\ canvas = "undefined"
    /\ isLoadingRef
    /\ canvas' = "doc"
    /\ LET content == IF storeContent.kind = "empty"
                      THEN JSONstringify(<<>>) ELSE storeContent
           parsed == JSONparse(content)
       IN  IF parsed.threw THEN
               /\ shapes' = <<>>
               /\ saveContent(<<>>, FALSE)
               /\ UNCHANGED <<history, historyIndex, lastSavedRef>>
               /\ lastEvent' = "load:catch"
           ELSE IF parsed.hasShapes THEN
               /\ shapes' = parsed.shapes
               /\ history' = <<parsed.shapes>>
               /\ historyIndex' = 0
               /\ lastSavedRef' = content
               /\ saveContent(parsed.shapes, FALSE)
               /\ lastEvent' = "load:shapes"
           ELSE
               /\ lastSavedRef' = content
               /\ UNCHANGED <<shapes, history, historyIndex, timerVars>>
               /\ lastEvent' = "load:noShapes"
    /\ isLoadingRef' = FALSE
    /\ UNCHANGED <<viewVars, mounted, stageSize, tldraw, storeContent, crashed, inflight,
                   saveCalls, failedIdle, uiVars, nextId>>

\* lines 385-399: the body of the load effect, from the try to the
\* finally, for the document the query holds now.
Hydrate ==
    /\ LET content == IF storeContent.kind = "empty"
                      THEN JSONstringify(<<>>) ELSE storeContent
           parsed == JSONparse(content)
       IN  IF parsed.threw THEN
               /\ shapes' = <<>>
               /\ saveContent(<<>>, FALSE)
               /\ UNCHANGED <<history, historyIndex, lastSavedRef>>
               /\ lastEvent' = "load:catch"
           ELSE IF parsed.hasShapes THEN
               /\ shapes' = parsed.shapes
               /\ history' = <<parsed.shapes>>
               /\ historyIndex' = 0
               /\ lastSavedRef' = content
               /\ saveContent(parsed.shapes, FALSE)
               /\ lastEvent' = "load:shapes"
           ELSE
               /\ lastSavedRef' = content
               /\ UNCHANGED <<shapes, history, historyIndex, timerVars>>
               /\ lastEvent' = "load:noShapes"
    /\ isLoadingRef' = FALSE

\* The load effect without its isLoadingRef guard: every new query result
\* is hydrated.
QueryUpdate_NoGuard ==
    /\ mounted
    /\ canvas = "doc"
    /\ Hydrate
    /\ UNCHANGED <<viewVars, mounted, stageSize, tldraw, canvas, storeContent, crashed,
                   inflight, saveCalls, failedIdle, uiVars, nextId>>

\* lines 381-400, run again: the getCanvas query delivers a new result
\* after the first (the document was patched by this editor's save, by a
\* title or pin change, or by another session) and the load effect, whose
\* dependency is canvas, runs; line 383 returns unless isLoadingRef is set.
QueryUpdate ==
    /\ mounted
    /\ canvas = "doc"
    /\ IF isLoadingRef THEN Hydrate
       ELSE /\ UNCHANGED <<sceneVars, timerVars, lastSavedRef, isLoadingRef>>
            /\ lastEvent' = "queryUpdate"
    /\ UNCHANGED <<viewVars, mounted, stageSize, tldraw, canvas, storeContent, crashed,
                   inflight, saveCalls, failedIdle, uiVars, nextId>>

\* convex/canvases.ts updateCanvas, called by another session of the same
\* user: the stored content is replaced.
RemoteWrite(contents) ==
    /\ \E content \in contents \ {storeContent} : storeContent' = content
    /\ lastEvent' = "remoteWrite"
    /\ UNCHANGED <<viewVars, mounted, stageSize, tldraw, canvas, crashed, isLoadingRef,
                   lastSavedRef, timerVars, inflight, saveCalls, failedIdle,
                   sceneVars, uiVars, nextId>>

(* --------------------------- history buttons --------------------------- *)

\* undo without its guard: it steps below index 0.
undo_NoGuard ==
    /\ mounted
    /\ historyIndex' = historyIndex - 1
    /\ setShapes(history[Max(historyIndex - 1, 0) + 1])
    /\ lastEvent' = "undo"
    /\ UNCHANGED <<viewVars, mounted, stageSize, tldraw, storeVars, history, uiVars, nextId>>

\* undo moving the index without showing the entry it moves to.
undo_IndexOnly ==
    /\ mounted
    /\ IF historyIndex > 0 THEN
           /\ historyIndex' = historyIndex - 1
           /\ UNCHANGED <<shapes, timerVars>>
           /\ lastEvent' = "undo"
       ELSE
           /\ UNCHANGED <<shapes, historyIndex, timerVars>>
           /\ lastEvent' = "undo:noop"
    /\ UNCHANGED <<viewVars, mounted, stageSize, tldraw, storeVars, history, uiVars,
                   nextId>>

\* lines 442-448 (toolbar button or Ctrl/Cmd+Z; the key handler is
\* inactive while a sticky note is edited, the button is not).
undo ==
    /\ mounted
    /\ IF historyIndex > 0 THEN
           /\ historyIndex' = historyIndex - 1
           /\ setShapes(history[historyIndex - 1 + 1])
           /\ lastEvent' = "undo"
       ELSE
           /\ UNCHANGED <<shapes, historyIndex, timerVars>>
           /\ lastEvent' = "undo:noop"
    /\ UNCHANGED <<viewVars, mounted, stageSize, tldraw, storeVars, history, uiVars, nextId>>


\* redo showing the entry at the old index instead of the new one.
redo_StaleIndex ==
    /\ mounted
    /\ IF historyIndex < Len(history) - 1 THEN
           /\ historyIndex' = historyIndex + 1
           /\ setShapes(history[historyIndex + 1])
           /\ lastEvent' = "redo"
       ELSE
           /\ UNCHANGED <<shapes, historyIndex, timerVars>>
           /\ lastEvent' = "redo:noop"
    /\ UNCHANGED <<viewVars, mounted, stageSize, tldraw, storeVars, history, uiVars, nextId>>

\* lines 451-457.
redo ==
    /\ mounted
    /\ IF historyIndex < Len(history) - 1 THEN
           /\ historyIndex' = historyIndex + 1
           /\ setShapes(history[historyIndex + 1 + 1])
           /\ lastEvent' = "redo"
       ELSE
           /\ UNCHANGED <<shapes, historyIndex, timerVars>>
           /\ lastEvent' = "redo:noop"
    /\ UNCHANGED <<viewVars, mounted, stageSize, tldraw, storeVars, history, uiVars, nextId>>

\* clearCanvas replacing the history by the single empty scene.
clearCanvas_ResetHistory ==
    /\ mounted
    /\ canvas = "doc"
    /\ CanCommit
    /\ setShapes(<<>>)
    /\ history' = << <<>> >>
    /\ historyIndex' = 0
    /\ selectedId' = Null
    /\ mindMapRootId' = Null
    /\ lastEvent' = "clearCanvas"
    /\ UNCHANGED <<viewVars, mounted, stageSize, tldraw, storeVars, tool, isDrawing,
                   currentShape, startPoint, editingSticky, showMindMapPanel,
                   nextId>>

\* clearCanvas without its setMindMapRootId(null).
clearCanvas_KeepRoot ==
    /\ mounted
    /\ canvas = "doc"
    /\ CanCommit
    /\ CommitShapes(<<>>)
    /\ selectedId' = Null
    /\ lastEvent' = "clearCanvas"
    /\ UNCHANGED <<viewVars, mounted, stageSize, tldraw, storeVars, tool, isDrawing,
                   currentShape, startPoint, editingSticky, showMindMapPanel,
                   mindMapRootId, nextId>>

\* lines 460-466 (the toolbar is rendered once the document is there).
clearCanvas ==
    /\ mounted
    /\ canvas = "doc"
    /\ CanCommit
    /\ CommitShapes(<<>>)
    /\ selectedId' = Null
    /\ mindMapRootId' = Null
    /\ lastEvent' = "clearCanvas"
    /\ UNCHANGED <<viewVars, mounted, stageSize, tldraw, storeVars, tool, isDrawing, currentShape, startPoint,
                   editingSticky, showMindMapPanel, nextId>>

(* --------------------------- shape creation ---------------------------- *)
\* Room for n more shapes with n fresh ids and one more commit.
CanAdd(n) ==
    /\ CanCommit
    /\ Len(shapes) + n <= MaxShapes
    /\ nextId + n <= MaxIds

\* lines 616-636.
createStickyNote(pos, colorIndex) ==
    LET dim == getStickyDimensions(stageSize.width)
        newShape == StickyNoteShape(generateId(1), pos[1], pos[2],
                                    dim.width, dim.height, "", colorIndex)
    IN  /\ CommitShapes(Append(shapes, newShape))
        /\ editingSticky' = newShape.id
        /\ nextId' = nextId + 1

\* lines 697-724, after prompt() returned a non-empty text.
createMindMapRoot(pos, text) ==
    LET dim == getMindMapNodeDimensions(text, TRUE)
        newShape == MindMapNodeShape(generateId(1),
                                     pos[1] - dim.width \div 2,
                                     pos[2] - dim.height \div 2,
                                     dim.width, dim.height, text, Null, TRUE)
    IN  /\ CommitShapes(Append(shapes, newShape))
        /\ mindMapRootId' = newShape.id
        /\ showMindMapPanel' = TRUE
        /\ nextId' = nextId + 1

\* shapes.find(s => s.id === id): the index of the first such shape, or 0.
FindById(shs, id) ==
    LET at == {i \in 1..Len(shs) : shs[i].id = id}
    IN  IF at = {} THEN 0 ELSE CHOOSE i \in at : \A j \in at : i <= j

\* lines 727-729: addMindMapChild goes on to prompt for a text.
HasMindMapParent(parentId) ==
    LET i == FindById(shapes, parentId)
    IN  i # 0 /\ shapes[i].type = "mindmapNode"

\* lines 734-777, after prompt() returned a non-empty text: the scene
\* with the new child node and its connector.
ShapesWithChild(parentId, text) ==
    LET parent == shapes[FindById(shapes, parentId)]
        dim == getMindMapNodeDimensions(text, FALSE)
        siblings == SelectSeq(shapes, LAMBDA s :
                        s.type = "mindmapNode" /\ s.parentId = parentId)
        offsetY == Len(siblings) * 70
        newNode == MindMapNodeShape(generateId(1),
                                    parent.x + parent.width + 100,
                                    parent.y + offsetY,
                                    dim.width, dim.height, text, parentId, FALSE)
        connector == ConnectorShape(generateId(2), parentId, newNode.id,
                        << parent.x + parent.width,
                           parent.y + parent.height \div 2,
                           newNode.x,
                           newNode.y + newNode.height \div 2 >>)
    IN  shapes \o <<newNode, connector>>

\* lines 727-778: the whole of addMindMapChild for a prompt result.
addMindMapChild(parentId, text) ==
    IF HasMindMapParent(parentId) /\ ~Falsy(text) THEN
        /\ CanAdd(2)
        /\ CommitShapes(ShapesWithChild(parentId, text))
        /\ nextId' = nextId + 2
    ELSE
        UNCHANGED <<sceneVars, timerVars, nextId>>

(* ---------------------------- pointer down ----------------------------- *)
\* The canvas element takes pointer events once the document is there and
\* while the sticky-note overlay (lines 1831-1861) does not cover it.
CanvasTakesPointer == mounted /\ canvas = "doc" /\ editingSticky = Null

\* lines 806-822: tool "select"; detail is the click count.
\* The view offsets the model follows.
PanInRange(pan) ==
    /\ pan[1] >= -MaxPan /\ pan[1] <= MaxPan
    /\ pan[2] >= -MaxPan /\ pan[2] <= MaxPan

\* getMousePos leaving the pan offset out.
getMousePos_NoPan(scr) ==
    << (scr[1] * 1000) \div zoom, (scr[2] * 1000) \div zoom >>

\* lines 511-521: the scene point of a pointer event at scr, a point
\* relative to the canvas element (clientX - rect.left, clientY - rect.top).
\* Quotients are whole numbers here: a fraction is rounded down.
getMousePos(scr) ==
    << ((scr[1] - panOffset[1]) * 1000) \div zoom,
       ((scr[2] - panOffset[2]) * 1000) \div zoom >>

\* lines 1066-1070 and 1209-1212: the same for a single touch.
getTouchPos(scr) ==
    << ((scr[1] - panOffset[1]) * 1000) \div zoom,
       ((scr[2] - panOffset[2]) * 1000) \div zoom >>

\* lines 798-804: the middle button, or any button while Space is held,
\* starts a pan; button is MouseEvent.button.
MouseDownPan(pts) ==
    /\ CanvasTakesPointer
    /\ \E scr \in pts, button \in {0, 1} :
         /\ button = 1 \/ isSpacePressed
         /\ lastPanPoint' = scr
    /\ isPanning' = TRUE
    /\ lastEvent' = "panStart"
    /\ UNCHANGED <<zoom, panOffset, isSpacePressed, lastTouchDistance,
                   lastTouchCenter, mounted, stageSize, tldraw, persistVars, sceneVars, uiVars,
                   nextId>>

MouseDownSelect(pts) ==
    /\ CanvasTakesPointer
    /\ ~isSpacePressed
    /\ tool = "select"
    /\ \E pos \in {getMousePos(scr) : scr \in pts}, detail \in {1, 2} :
         LET hit == findShapeAtPosition(shapes, pos)
         IN  /\ startPoint' = pos
             /\ isDrawing' = TRUE
             /\ selectedId' = IF hit = 0 THEN Null ELSE shapes[hit].id
             /\ editingSticky' =
                    IF hit # 0 /\ shapes[hit].type = "sticky" /\ detail = 2
                    THEN shapes[hit].id ELSE editingSticky
    /\ lastEvent' = "select"
    /\ UNCHANGED <<viewVars, mounted, stageSize, tldraw, persistVars, sceneVars, tool, currentShape,
                   showMindMapPanel, mindMapRootId, nextId>>

\* lines 806-808 and 824-840: tool "eraser".
MouseDownEraser(pts) ==
    /\ CanvasTakesPointer
    /\ ~isSpacePressed
    /\ tool = "eraser"
    /\ \E pos \in {getMousePos(scr) : scr \in pts} :
         LET hit == findShapeAtPosition(shapes, pos)
         IN  /\ startPoint' = pos
             /\ isDrawing' = TRUE
             /\ IF hit # 0 THEN
                    /\ CanCommit
                    /\ CommitShapes(RemoveWithConnectors(shapes, shapes[hit].id))
                    /\ lastEvent' = "erase"
                ELSE
                    /\ UNCHANGED <<sceneVars, timerVars>>
                    /\ lastEvent' = "none"
    /\ UNCHANGED <<viewVars, mounted, stageSize, tldraw, storeVars, tool, selectedId, currentShape, editingSticky,
                   showMindMapPanel, mindMapRootId, nextId>>

\* lines 806-808 and 842-847: tool "sticky".
MouseDownSticky(pts) ==
    /\ CanvasTakesPointer
    /\ ~isSpacePressed
    /\ tool = "sticky"
    /\ CanAdd(1)
    /\ \E pos \in {getMousePos(scr) : scr \in pts}, colorIndex \in ColorChoices :
         /\ startPoint' = pos
         /\ createStickyNote(pos, colorIndex)
    /\ isDrawing' = FALSE
    /\ tool' = "select"
    /\ lastEvent' = "sticky"
    /\ UNCHANGED <<viewVars, mounted, stageSize, tldraw, storeVars, selectedId, currentShape, showMindMapPanel,
                   mindMapRootId>>

\* lines 806-808 and 849-861: tool "mindmap"; text is what prompt() returns.
MouseDownMindMap(pts) ==
    /\ CanvasTakesPointer
    /\ ~isSpacePressed
    /\ tool = "mindmap"
    /\ \E pos \in {getMousePos(scr) : scr \in pts}, text \in PromptResults :
         /\ startPoint' = pos
         /\ IF mindMapRootId = Null THEN
                IF Falsy(text) THEN
                    /\ UNCHANGED <<sceneVars, timerVars, nextId,
                                   mindMapRootId, showMindMapPanel>>
                    /\ lastEvent' = "cancel"
                ELSE
                    /\ CanAdd(1)
                    /\ createMindMapRoot(pos, text)
                    /\ lastEvent' = "mindmapRoot"
            ELSE
                LET hit == findShapeAtPosition(shapes, pos)
                IN  /\ IF hit # 0 /\ shapes[hit].type = "mindmapNode" THEN
                           /\ addMindMapChild(shapes[hit].id, text)
                           /\ lastEvent' = IF Falsy(text)
                                           THEN "cancel"
                                           ELSE "mindmapChild"
                       ELSE
                           /\ UNCHANGED <<sceneVars, timerVars, nextId>>
                           /\ lastEvent' = "mindmapMiss"
                    /\ UNCHANGED <<mindMapRootId, showMindMapPanel>>
    /\ isDrawing' = FALSE
    /\ UNCHANGED <<viewVars, mounted, stageSize, tldraw, storeVars, tool, selectedId, currentShape, editingSticky>>

\* lines 806-808 and 863-882: tool "text".
MouseDownText(pts) ==
    /\ CanvasTakesPointer
    /\ ~isSpacePressed
    /\ tool = "text"
    /\ \E pos \in {getMousePos(scr) : scr \in pts}, text \in PromptResults :
         /\ startPoint' = pos
         /\ IF ~Falsy(text) THEN
                /\ CanAdd(1)
                /\ CommitShapes(Append(shapes,
                        TextShape(generateId(1), pos[1], pos[2], text)))
                /\ nextId' = nextId + 1
                /\ lastEvent' = "text"
            ELSE
                /\ UNCHANGED <<sceneVars, timerVars, nextId>>
                /\ lastEvent' = "cancel"
    /\ isDrawing' = FALSE
    /\ UNCHANGED <<viewVars, mounted, stageSize, tldraw, storeVars, tool, selectedId, currentShape, editingSticky,
                   showMindMapPanel, mindMapRootId>>

\* Math.sqrt (lines 974, 1234), in whole units: the drags of the model
\* have whole-number lengths.
Sqrt(n) == CHOOSE r \in 0..n : r * r <= n /\ n < (r + 1) * (r + 1)

\* lines 956-985 and 1215-1243: the shape being drawn, recomputed for the
\* pointer at pos of a drag that started at start.
Dragged(cur, start, pos) ==
    CASE cur.type = "freehand" ->
            [cur EXCEPT !.points = cur.points \o <<pos[1], pos[2]>>]
      [] cur.type = "rectangle" ->
            [cur EXCEPT !.width = pos[1] - start[1],
                        !.height = pos[2] - start[2]]
      [] cur.type = "circle" ->
            LET dx == pos[1] - start[1]
                dy == pos[2] - start[2]
            IN  [cur EXCEPT !.radius = Sqrt(dx * dx + dy * dy)]
      [] cur.type = "line" ->
            [cur EXCEPT !.points = <<start[1], start[2], pos[1], pos[2]>>]
      [] OTHER -> cur

\* A pen stroke has room for one more point.
StrokeHasRoom(cur) ==
    cur.type = "freehand" => Len(cur.points) < 2 * (MaxStroke + 1)

\* lines 806-808, 884-937: the shape a drawing tool starts its drag with.
InitialShape(t, id, pos) ==
    CASE t = "pen" -> FreehandShape(id, <<pos[1], pos[2]>>)
      [] t = "rectangle" -> RectangleShape(id, pos[1], pos[2], 0, 0)
      [] t = "circle" -> CircleShape(id, pos[1], pos[2], 0)
      [] t = "line" -> LineShape(id, <<pos[1], pos[2], pos[1], pos[2]>>)

\* lines 806-808, 884-937: one of the drawing tools ts starts a drag.
MouseDownDraw(ts, pts) ==
    /\ CanvasTakesPointer
    /\ ~isSpacePressed
    /\ tool \in ts
    /\ nextId + 1 <= MaxIds
    /\ \E pos \in {getMousePos(scr) : scr \in pts} :
         /\ startPoint' = pos
         /\ currentShape' = InitialShape(tool, generateId(1), pos)
    /\ isDrawing' = TRUE
    /\ nextId' = nextId + 1
    /\ lastEvent' = "drawStart"
    /\ UNCHANGED <<viewVars, mounted, stageSize, tldraw, persistVars, sceneVars, tool,
                   selectedId, editingSticky, showMindMapPanel, mindMapRootId>>

\* lines 806-808, 884-937: tool "rectangle" starts a drag.
MouseDownRectangle(pts) ==
    /\ CanvasTakesPointer
    /\ ~isSpacePressed
    /\ tool = "rectangle"
    /\ nextId + 1 <= MaxIds
    /\ \E pos \in {getMousePos(scr) : scr \in pts} :
         /\ startPoint' = pos
         /\ currentShape' = RectangleShape(generateId(1), pos[1], pos[2], 0, 0)
    /\ isDrawing' = TRUE
    /\ nextId' = nextId + 1
    /\ lastEvent' = "drawStart"
    /\ UNCHANGED <<viewVars, mounted, stageSize, tldraw, persistVars, sceneVars, tool, selectedId, editingSticky,
                   showMindMapPanel, mindMapRootId>>

\* lines 941-990: a pan under way moves the view by the pointer's
\* displacement; otherwise a drag recomputes the shape being drawn.
handleMouseMove(pts) ==
    /\ CanvasTakesPointer
    /\ IF isPanning /\ lastPanPoint # NoPoint THEN
           /\ \E scr \in pts :
                /\ panOffset' = <<panOffset[1] + scr[1] - lastPanPoint[1],
                                  panOffset[2] + scr[2] - lastPanPoint[2]>>
                /\ PanInRange(panOffset')
                /\ lastPanPoint' = scr
           /\ lastEvent' = "pan"
           /\ UNCHANGED currentShape
       ELSE
           /\ isDrawing /\ startPoint # NoPoint /\ currentShape # NoShape
           /\ StrokeHasRoom(currentShape)
           /\ \E pos \in {getMousePos(scr) : scr \in pts} :
                currentShape' = Dragged(currentShape, startPoint, pos)
           /\ lastEvent' = "none"
           /\ UNCHANGED <<panOffset, lastPanPoint>>
    /\ UNCHANGED <<zoom, isPanning, isSpacePressed, lastTouchDistance,
                   lastTouchCenter, mounted, stageSize, tldraw, persistVars, sceneVars, tool,
                   selectedId, isDrawing, startPoint, editingSticky,
                   showMindMapPanel, mindMapRootId, nextId>>

\* lines 993-1009, bound to mouseup and mouseleave: it ends a pan, or
\* else commits the shape being drawn.
handleMouseUp ==
    /\ CanvasTakesPointer
    /\ IF isPanning THEN
           /\ isPanning' = FALSE
           /\ lastPanPoint' = NoPoint
           /\ lastEvent' = "panEnd"
           /\ UNCHANGED <<sceneVars, timerVars, isDrawing, currentShape,
                          startPoint>>
       ELSE
           /\ IF currentShape # NoShape /\ isDrawing THEN
                  /\ CanCommit
                  /\ Len(shapes) + 1 <= MaxShapes
                  /\ CommitShapes(Append(shapes, currentShape))
                  /\ lastEvent' = "mouseUp:commit"
              ELSE
                  /\ UNCHANGED <<sceneVars, timerVars>>
                  /\ lastEvent' = "mouseUp:none"
           /\ isDrawing' = FALSE
           /\ currentShape' = NoShape
           /\ startPoint' = NoPoint
           /\ UNCHANGED <<isPanning, lastPanPoint>>
    /\ UNCHANGED <<zoom, panOffset, isSpacePressed, lastTouchDistance,
                   lastTouchCenter, mounted, stageSize, tldraw, storeVars, tool, selectedId,
                   editingSticky, showMindMapPanel, mindMapRootId, nextId>>

(* ------------------------------- touch --------------------------------- *)
\* lines 1060-1096: a single touch with tool "eraser".
TouchStartEraser(pts) ==
    /\ CanvasTakesPointer
    /\ tool = "eraser"
    /\ \E pos \in {getTouchPos(scr) : scr \in pts} :
         LET hit == findShapeAtPosition(shapes, pos)
         IN  /\ startPoint' = pos
             /\ isDrawing' = TRUE
             /\ IF hit # 0 THEN
                    /\ CanCommit
                    /\ CommitShapes(RemoveWithConnectors(shapes, shapes[hit].id))
                    /\ lastEvent' = "erase"
                ELSE
                    /\ UNCHANGED <<sceneVars, timerVars>>
                    /\ lastEvent' = "none"
    /\ UNCHANGED <<viewVars, mounted, stageSize, tldraw, storeVars, tool, selectedId, currentShape, editingSticky,
                   showMindMapPanel, mindMapRootId, nextId>>

(* ------------------------------ keyboard ------------------------------- *)
\* lines 1534-1559: Delete or Backspace (the window listener is there from
\* mount on; it returns at once while a sticky note is edited).
KeyDelete ==
    /\ mounted
    /\ editingSticky = Null
    /\ IF selectedId # Null THEN
           /\ CanCommit
           /\ CommitShapes(RemoveWithConnectors(shapes, selectedId))
           /\ selectedId' = Null
           /\ lastEvent' = "delete"
       ELSE
           /\ UNCHANGED <<sceneVars, timerVars, selectedId>>
           /\ lastEvent' = "none"
    /\ UNCHANGED <<viewVars, mounted, stageSize, tldraw, storeVars, tool, isDrawing, currentShape, startPoint,
                   editingSticky, showMindMapPanel, mindMapRootId, nextId>>

\* lines 1584-1594 (letter keys) and 1675 (toolbar buttons): the user
\* picks one of the tools ts.
SetTool(ts) ==
    /\ mounted
    /\ canvas = "doc" \/ editingSticky = Null
    /\ \E t \in ts \ {tool} : tool' = t
    /\ lastEvent' = "none"
    /\ UNCHANGED <<viewVars, mounted, stageSize, tldraw, persistVars, sceneVars, selectedId, isDrawing, currentShape,
                   startPoint, editingSticky, showMindMapPanel, mindMapRootId,
                   nextId>>

(* ------------------------------- view ---------------------------------- *)
MIN_ZOOM == 100                 \* line 469: 0.1
MAX_ZOOM == 5000                \* line 470: 5
ZOOM_STEP == 100                \* line 471: 0.1

\* How a requested zoom lies to the range.
ZoomEvent(requested) ==
    IF requested > MAX_ZOOM THEN "zoom:over"
    ELSE IF requested < MIN_ZOOM THEN "zoom:under"
    ELSE "zoom:within"

\* Math.max(MIN_ZOOM, Math.min(MAX_ZOOM, z)) with the upper bound only.
ClampZoom_NoFloor(z) == Min(MAX_ZOOM, z)

\* lines 488 and 1183: Math.max(MIN_ZOOM, Math.min(MAX_ZOOM, z)).
ClampZoom(z) == Max(MIN_ZOOM, Min(MAX_ZOOM, z))

\* lines 491-493 and 1188-1191: the pan that keeps the scene point under
\* center where it is when the zoom goes from zoom to newZoom.
PanToward(center, newZoom) ==
    << center[1] - ((center[1] - panOffset[1]) * newZoom) \div zoom,
       center[2] - ((center[2] - panOffset[2]) * newZoom) \div zoom >>

\* lines 473-475 (toolbar button, Ctrl/Cmd + "=" or "+").
zoomIn ==
    /\ mounted
    /\ zoom' = Min(MAX_ZOOM, zoom + ZOOM_STEP)
    /\ lastEvent' = ZoomEvent(zoom + ZOOM_STEP)
    /\ UNCHANGED <<panOffset, isPanning, isSpacePressed, lastPanPoint,
                   lastTouchDistance, lastTouchCenter, mounted, stageSize, tldraw, persistVars,
                   sceneVars, uiVars, nextId>>

\* lines 477-479 (toolbar button, Ctrl/Cmd + "-").
zoomOut ==
    /\ mounted
    /\ zoom' = Max(MIN_ZOOM, zoom - ZOOM_STEP)
    /\ lastEvent' = ZoomEvent(zoom - ZOOM_STEP)
    /\ UNCHANGED <<panOffset, isPanning, isSpacePressed, lastPanPoint,
                   lastTouchDistance, lastTouchCenter, mounted, stageSize, tldraw, persistVars,
                   sceneVars, uiVars, nextId>>

\* lines 481-484 (toolbar buttons, Ctrl/Cmd + "0").
resetView ==
    /\ mounted
    /\ zoom' = 1000
    /\ panOffset' = <<0, 0>>
    /\ lastEvent' = "resetView"
    /\ UNCHANGED <<isPanning, isSpacePressed, lastPanPoint,
                   lastTouchDistance, lastTouchCenter, mounted, stageSize, tldraw, persistVars,
                   sceneVars, uiVars, nextId>>

\* lines 487-497 and 1012-1025: a wheel event with deltaY at center;
\* delta = -deltaY * 0.001 is -deltaY thousandths.
handleWheel(deltaYs, centers) ==
    /\ CanvasTakesPointer
    /\ \E deltaY \in deltaYs, center \in centers :
         LET newZoom == ClampZoom(zoom - deltaY)
         IN  /\ zoom' = newZoom
             /\ panOffset' = PanToward(center, newZoom)
             /\ PanInRange(panOffset')
             /\ lastEvent' = ZoomEvent(zoom - deltaY)
    /\ UNCHANGED <<isPanning, isSpacePressed, lastPanPoint,
                   lastTouchDistance, lastTouchCenter, mounted, stageSize, tldraw, persistVars,
                   sceneVars, uiVars, nextId>>

\* lines 1538-1543: Space pressed (not while a sticky note is edited).
KeySpaceDown ==
    /\ mounted
    /\ editingSticky = Null
    /\ isSpacePressed' = TRUE
    /\ lastEvent' = "none"
    /\ UNCHANGED <<zoom, panOffset, isPanning, lastPanPoint,
                   lastTouchDistance, lastTouchCenter, mounted, stageSize, tldraw, persistVars,
                   sceneVars, uiVars, nextId>>

\* lines 1597-1603: Space released.
KeySpaceUp ==
    /\ mounted
    /\ isSpacePressed' = FALSE
    /\ isPanning' = FALSE
    /\ lastPanPoint' = NoPoint
    /\ lastEvent' = "none"
    /\ UNCHANGED <<zoom, panOffset, lastTouchDistance, lastTouchCenter,
                   mounted, stageSize, tldraw, persistVars, sceneVars, uiVars, nextId>>

\* lines 1045-1058: two fingers down, distance apart around center.
TouchStartTwo(distances, centers) ==
    /\ CanvasTakesPointer
    /\ \E distance \in distances, center \in centers :
         /\ lastTouchDistance' = distance
         /\ lastTouchCenter' = center
    /\ isPanning' = TRUE
    /\ lastEvent' = "pinchStart"
    /\ UNCHANGED <<zoom, panOffset, isSpacePressed, lastPanPoint, mounted, stageSize, tldraw,
                   persistVars, sceneVars, uiVars, nextId>>

\* lines 1163-1198: two fingers move.  A null or zero last distance, or a
\* null last center, ends the handler early.
TouchMovePinch(distances, centers) ==
    /\ CanvasTakesPointer
    /\ isPanning
    /\ IF lastTouchDistance = Null \/ lastTouchCenter = NoPoint THEN
           /\ UNCHANGED <<zoom, panOffset, lastTouchDistance, lastTouchCenter>>
           /\ lastEvent' = "none"
       ELSE
           \E distance \in distances, center \in centers :
              LET requested == (zoom * distance) \div lastTouchDistance
                  newZoom == ClampZoom(requested)
                  toward == PanToward(center, newZoom)
              IN  /\ zoom' = newZoom
                  /\ panOffset' =
                        <<toward[1] + center[1] - lastTouchCenter[1],
                          toward[2] + center[2] - lastTouchCenter[2]>>
                  /\ PanInRange(panOffset')
                  /\ lastTouchDistance' = distance
                  /\ lastTouchCenter' = center
                  /\ lastEvent' = ZoomEvent(requested)
    /\ UNCHANGED <<isPanning, isSpacePressed, lastPanPoint, mounted, stageSize, tldraw,
                   persistVars, sceneVars, uiVars, nextId>>

\* lines 1098-1159 with tool "rectangle": a single touch starts a drag.
TouchStartRectangle(pts) ==
    /\ CanvasTakesPointer
    /\ tool = "rectangle"
    /\ nextId + 1 <= MaxIds
    /\ \E pos \in {getTouchPos(scr) : scr \in pts} :
         /\ startPoint' = pos
         /\ currentShape' = RectangleShape(generateId(1), pos[1], pos[2], 0, 0)
    /\ isDrawing' = TRUE
    /\ nextId' = nextId + 1
    /\ lastEvent' = "drawStart"
    /\ UNCHANGED <<viewVars, mounted, stageSize, tldraw, persistVars, sceneVars, tool,
                   selectedId, editingSticky, showMindMapPanel,
                   mindMapRootId>>

\* lines 1201-1243: a single touch moves while a shape is drawn.
TouchMoveDraw(pts) ==
    /\ CanvasTakesPointer
    /\ isDrawing /\ startPoint # NoPoint /\ currentShape # NoShape
    /\ StrokeHasRoom(currentShape)
    /\ \E pos \in {getTouchPos(scr) : scr \in pts} :
         currentShape' = Dragged(currentShape, startPoint, pos)
    /\ lastEvent' = "none"
    /\ UNCHANGED <<viewVars, mounted, stageSize, tldraw, persistVars, sceneVars, tool,
                   selectedId, isDrawing, startPoint, editingSticky,
                   showMindMapPanel, mindMapRootId, nextId>>

\* lines 1246-1264: the touch ends: a two-finger gesture is over, and the
\* shape being drawn, if any, is committed.
handleTouchEnd ==
    /\ CanvasTakesPointer
    /\ IF isPanning THEN
           /\ isPanning' = FALSE
           /\ lastTouchDistance' = Null
           /\ lastTouchCenter' = NoPoint
       ELSE UNCHANGED <<isPanning, lastTouchDistance, lastTouchCenter>>
    /\ IF currentShape # NoShape /\ isDrawing THEN
           /\ CanCommit
           /\ Len(shapes) + 1 <= MaxShapes
           /\ CommitShapes(Append(shapes, currentShape))
           /\ lastEvent' = "mouseUp:commit"
       ELSE
           /\ UNCHANGED <<sceneVars, timerVars>>
           /\ lastEvent' = IF isPanning THEN "pinchEnd" ELSE "none"
    /\ isDrawing' = FALSE
    /\ currentShape' = NoShape
    /\ startPoint' = NoPoint
    /\ UNCHANGED <<zoom, panOffset, isSpacePressed, lastPanPoint, mounted, stageSize, tldraw,
                   storeVars, tool, selectedId, editingSticky,
                   showMindMapPanel, mindMapRootId, nextId>>

\* lines 366-378: the container is measured at mount and on every window
\* resize; size is its offsetWidth and offsetHeight.
updateSize(sizes) ==
    /\ mounted
    /\ \E size \in sizes : stageSize' = size
    /\ lastEvent' = "none"
    /\ UNCHANGED <<viewVars, mounted, tldraw, persistVars, sceneVars, uiVars, nextId>>

\* lines 1061-1074 and 1098-1103: a single touch with tool "sticky".
TouchStartSticky(pts) ==
    /\ CanvasTakesPointer
    /\ tool = "sticky"
    /\ CanAdd(1)
    /\ \E pos \in {getTouchPos(scr) : scr \in pts},
          colorIndex \in ColorChoices :
         /\ startPoint' = pos
         /\ createStickyNote(pos, colorIndex)
    /\ isDrawing' = FALSE
    /\ tool' = "select"
    /\ lastEvent' = "sticky"
    /\ UNCHANGED <<viewVars, mounted, stageSize, tldraw, storeVars, selectedId,
                   currentShape, showMindMapPanel, mindMapRootId>>

(* -------------------------- sticky-note overlay ------------------------ *)
\* lines 781-794 (Save button, or a click on the backdrop); stickyText is
\* what the textarea holds.
updateStickyText ==
    /\ mounted
    /\ canvas = "doc"
    /\ editingSticky # Null
    /\ CanCommit
    /\ \E stickyText \in {"", "a"} :
         CommitShapes([i \in 1..Len(shapes) |->
             IF shapes[i].id = editingSticky /\ shapes[i].type = "sticky"
             THEN [shapes[i] EXCEPT !.text = stickyText]
             ELSE shapes[i]])
    /\ editingSticky' = Null
    /\ lastEvent' = "updateStickyText"
    /\ UNCHANGED <<viewVars, mounted, stageSize, tldraw, storeVars, tool, selectedId, isDrawing, currentShape,
                   startPoint, showMindMapPanel, mindMapRootId, nextId>>

\* lines 1844 and 1856: the overlay's close and Cancel buttons.
CancelStickyEdit ==
    /\ mounted
    /\ canvas = "doc"
    /\ editingSticky # Null
    /\ editingSticky' = Null
    /\ lastEvent' = "stickyCancel"
    /\ UNCHANGED <<viewVars, mounted, stageSize, tldraw, persistVars, sceneVars, tool, selectedId, isDrawing,
                   currentShape, startPoint, showMindMapPanel, mindMapRootId,
                   nextId>>

(* --------------------------- mind-map panel ---------------------------- *)
\* lines 1909-1932: the panel's "Add Node" button.
PanelAddNode ==
    /\ mounted
    /\ canvas = "doc"
    /\ showMindMapPanel /\ mindMapRootId # Null
    /\ \E text \in PromptResults :
         LET sel == FindById(shapes, selectedId)
             parentId == IF sel # 0 /\ shapes[sel].type = "mindmapNode"
                         THEN shapes[sel].id ELSE mindMapRootId
         IN  /\ addMindMapChild(parentId, text)
             /\ lastEvent' = IF HasMindMapParent(parentId) /\ ~Falsy(text)
                             THEN "mindmapChild" ELSE "cancel"
    /\ UNCHANGED <<viewVars, mounted, stageSize, tldraw, storeVars, uiVars>>

(* ------------------------------ unmount -------------------------------- *)
\* The cleanup without the clearTimeout: the pending timer stays.
unmount_NoClear ==
    /\ mounted
    /\ mounted' = FALSE
    /\ lastEvent' = "unmount"
    /\ UNCHANGED <<viewVars, stageSize, tldraw, persistVars, sceneVars, uiVars, nextId>>

\* lines 1613-1620: the component is unmounted and the cleanup clears the
\* timer saveTimeoutRef names (clearing a timer that has fired does
\* nothing); the ref itself is left as it is.
unmount ==
    /\ mounted
    /\ mounted' = FALSE
    /\ timers' = clearTimeout
    /\ lastEvent' = "unmount"
    /\ UNCHANGED <<viewVars, stageSize, tldraw, storeVars, saveTimeoutRef, sceneVars,
                   uiVars, nextId>>

(* ------------------------- timer and the store ------------------------- *)

\* The timer callback without the comparison with lastSavedRef.
TimerFires_NoCompare ==
    /\ timers # <<>>
    /\ saveCalls < MaxSaves
    /\ inflight' = Append(inflight, [content |-> JSONstringify(Head(timers)),
                                     status |-> "sent"])
    /\ saveCalls' = saveCalls + 1
    /\ lastEvent' = "timer:save"
    /\ timers' = Tail(timers)
    /\ saveTimeoutRef' = IF saveTimeoutRef = "live" /\ Len(timers) = 1
                         THEN "dead" ELSE saveTimeoutRef
    /\ failedIdle' = FALSE
    /\ UNCHANGED <<viewVars, mounted, stageSize, tldraw, canvas, storeContent, crashed, isLoadingRef, lastSavedRef,
                   sceneVars, uiVars, nextId>>

\* lines 409-419, up to the await: the timer due first fires.
TimerFires ==
    /\ timers # <<>>
    /\ LET content == JSONstringify(Head(timers))
       IN  IF content # lastSavedRef /\ ~isLoadingRef THEN
               /\ saveCalls < MaxSaves
               /\ inflight' = Append(inflight,
                                     [content |-> content, status |-> "sent"])
               /\ saveCalls' = saveCalls + 1
               /\ lastEvent' = "timer:save"
           ELSE
               /\ UNCHANGED <<inflight, saveCalls>>
               /\ lastEvent' = "timer:skip"
    /\ timers' = Tail(timers)
    /\ saveTimeoutRef' = IF saveTimeoutRef = "live" /\ Len(timers) = 1
                         THEN "dead" ELSE saveTimeoutRef
    /\ failedIdle' = FALSE
    /\ UNCHANGED <<viewVars, mounted, stageSize, tldraw, canvas, storeContent, crashed, isLoadingRef, lastSavedRef,
                   sceneVars, uiVars, nextId>>

\* The oldest call the store has not run yet (mutations of one client run
\* in the order they were issued), 0 if there is none.
FirstSent ==
    LET sent == {i \in 1..Len(inflight) : inflight[i].status = "sent"}
    IN  IF sent = {} THEN 0 ELSE CHOOSE i \in sent : \A j \in sent : i <= j

\* convex/canvases.ts updateCanvas: the store runs the mutation: it
\* patches the content, or throws (not authenticated, canvas gone).
updateCanvas ==
    /\ FirstSent # 0
    /\ \E ok \in BOOLEAN :
         /\ inflight' = [inflight EXCEPT ![FirstSent].status =
                                            IF ok THEN "ok" ELSE "err"]
         /\ storeContent' = IF ok THEN inflight[FirstSent].content
                            ELSE storeContent
         /\ lastEvent' = IF ok THEN "store:ok" ELSE "store:err"
    /\ UNCHANGED <<viewVars, mounted, stageSize, tldraw, canvas, crashed, isLoadingRef,
                   lastSavedRef, timerVars, saveCalls, failedIdle, sceneVars,
                   uiVars, nextId>>

\* convex/canvases.ts updateCanvas, for a user who stays signed in and a
\* canvas that stays theirs: the mutation patches the content.
updateCanvasOk ==
    /\ FirstSent # 0
    /\ inflight' = [inflight EXCEPT ![FirstSent].status = "ok"]
    /\ storeContent' = inflight[FirstSent].content
    /\ lastEvent' = "store:ok"
    /\ UNCHANGED <<viewVars, mounted, stageSize, tldraw, canvas, crashed, isLoadingRef,
                   lastSavedRef, timerVars, saveCalls, failedIdle, sceneVars,
                   uiVars, nextId>>

\* The callback recording the content as saved whether or not the call
\* succeeded.
SaveSettles_MarkOnFailure ==
    /\ inflight # <<>>
    /\ Head(inflight).status # "sent"
    /\ lastSavedRef' = Head(inflight).content
    /\ inflight' = Tail(inflight)
    /\ failedIdle' = (Head(inflight).status = "err" /\ timers = <<>>)
    /\ lastEvent' = IF Head(inflight).status = "ok"
                    THEN "save:ok" ELSE "save:failed"
    /\ UNCHANGED <<viewVars, mounted, stageSize, tldraw, canvas, storeContent, crashed,
                   isLoadingRef, timerVars, saveCalls, sceneVars, uiVars, nextId>>

\* lines 413-417: the await of the oldest call returns, and the content is
\* recorded as saved, or throws, and the catch logs the error.
SaveSettles ==
    /\ inflight # <<>>
    /\ Head(inflight).status # "sent"
    /\ lastSavedRef' = IF Head(inflight).status = "ok"
                       THEN Head(inflight).content ELSE lastSavedRef
    /\ inflight' = Tail(inflight)
    /\ failedIdle' = (Head(inflight).status = "err" /\ timers = <<>>)
    /\ lastEvent' = IF Head(inflight).status = "ok"
                    THEN "save:ok" ELSE "save:failed"
    /\ UNCHANGED <<viewVars, mounted, stageSize, tldraw, canvas, storeContent, crashed,
                   isLoadingRef, timerVars, saveCalls, sceneVars, uiVars, nextId>>

(* ------------------------ the tldraw-backed editor ---------------------- *)

\* lines 2112-2170: <Tldraw onMount={handleMount}> is rendered only when
\* there is no load error, the module state is set and the query result is
\* neither undefined nor null.
TldrawRendered(t) == ~t.loadError /\ t.module /\ t.canvas >= 1

\* lines 2062-2087: one run of the hydrate effect.  It returns while
\* editorRef or tldrawRef is unset or the query has no document; otherwise
\* the first run loads the remote snapshot, records it in lastSavedRef,
\* sets didInitialHydrateRef and clears isLoadingRef; later runs do
\* nothing.
hydrateEffect(t) ==
    IF ~t.editor \/ ~t.module THEN t
    ELSE IF t.canvas = 0 THEN t
    ELSE IF ~t.didInitialHydrate
         THEN [t EXCEPT !.lastSaved = "remote",
                        !.didInitialHydrate = TRUE,
                        !.isLoading = FALSE,
                        !.hydrates = @ + 1]
         ELSE t

\* lines 2029-2060: handleMount stores the editor, sets isLoadingRef and
\* registers the store listener.
Mounted(t) == [t EXCEPT !.editor = TRUE, !.isLoading = TRUE]

\* lines 1986-1992: the dynamic import resolves; tldrawRef and the module
\* state are set.  The re-render it causes does not run the hydrate
\* effect, whose only dependency is canvas (line 2087).
loadTldraw ==
    /\ ~tldraw.module
    /\ ~tldraw.loadError
    /\ tldraw' = [tldraw EXCEPT !.module = TRUE]
    /\ lastEvent' = "tldrawLoaded"
    /\ UNCHANGED <<persistVars, sceneVars, uiVars, viewVars, mounted,
                   stageSize, nextId>>

\* lines 1993-1998: the dynamic import fails; the error screen replaces
\* the editor.
loadTldrawFails ==
    /\ ~tldraw.module
    /\ ~tldraw.loadError
    /\ tldraw' = [tldraw EXCEPT !.loadError = TRUE]
    /\ lastEvent' = "tldrawLoadError"
    /\ UNCHANGED <<persistVars, sceneVars, uiVars, viewVars, mounted,
                   stageSize, nextId>>

\* line 1979 with lines 2062-2087: the query delivers a result, the first
\* one or a changed document; the component re-renders and the hydrate
\* effect runs because canvas changed.  When this render is the one that
\* first shows <Tldraw>, the library may call onMount from an effect of
\* its own in the same commit, before the effect of the parent
\* (mountFirst), or in a later commit.
TldrawQueryResult ==
    /\ tldraw.canvas < MaxResults
    /\ \E mountFirst \in BOOLEAN :
        LET arrived == [tldraw EXCEPT !.canvas = @ + 1]
            atEffect == IF mountFirst /\ TldrawRendered(arrived)
                           /\ ~TldrawRendered(tldraw) /\ ~arrived.editor
                        THEN Mounted(arrived)
                        ELSE arrived
        IN  /\ tldraw' = hydrateEffect(atEffect)
            /\ lastEvent' =
                   IF tldraw'.hydrates > tldraw.hydrates
                   THEN "tldrawQuery:hydrate" ELSE "tldrawQuery"
    /\ UNCHANGED <<persistVars, sceneVars, uiVars, viewVars, mounted,
                   stageSize, nextId>>

\* lines 2029-2060: the library calls onMount in a commit of its own,
\* after <Tldraw> was rendered.  No dependency of the hydrate effect
\* changes, so the effect does not run.
handleMount ==
    /\ TldrawRendered(tldraw)
    /\ ~tldraw.editor
    /\ tldraw' = Mounted(tldraw)
    /\ lastEvent' = "tldrawMount"
    /\ UNCHANGED <<persistVars, sceneVars, uiVars, viewVars, mounted,
                   stageSize, nextId>>

\* lines 2045-2057 with 2008-2027: the user changes the document and the
\* store listener runs.  It returns while isLoadingRef is set; otherwise
\* it snapshots the store and saveContent starts the debounce timer.
TldrawUserChange ==
    /\ TldrawRendered(tldraw)
    /\ tldraw.editor
    /\ tldraw.changes < MaxChanges
    /\ IF ~tldraw.module \/ tldraw.isLoading
       THEN /\ tldraw' = [tldraw EXCEPT !.changes = @ + 1]
            /\ lastEvent' = "tldrawChange:ignored"
       ELSE /\ tldraw' = [tldraw EXCEPT !.changes = @ + 1,
                                        !.timer = TRUE,
                                        !.scheduled = @ + 1]
            /\ lastEvent' = "tldrawChange:scheduled"
    /\ UNCHANGED <<persistVars, sceneVars, uiVars, viewVars, mounted,
                   stageSize, nextId>>

\* lines 2015-2024: the debounce timer fires; a snapshot that differs
\* from lastSavedRef is written while isLoadingRef is clear, and
\* lastSavedRef records it.  A snapshot taken after a user change differs
\* from the remote content and from the snapshot saved before it.
TldrawTimerFires ==
    /\ tldraw.timer
    /\ tldraw' = [tldraw EXCEPT !.timer = FALSE,
                                !.lastSaved = IF tldraw.isLoading THEN @
                                              ELSE "local"]
    /\ lastEvent' = IF tldraw.isLoading THEN "tldrawTimer:skipped"
                    ELSE "tldrawTimer:saved"
    /\ UNCHANGED <<persistVars, sceneVars, uiVars, viewVars, mounted,
                   stageSize, nextId>>

(* ---------------------------- specifications --------------------------- *)
(* Each specification gives the user the handlers its properties are about,*)
(* with pointer positions from ClickPoints or OnePoint.                    *)

\* History: creation by prompt and by drag, erasing, undo, redo, clear.
NextHistory ==
    \/ Load
    \/ undo
    \/ redo
    \/ clearCanvas
    \/ MouseDownEraser(OnePoint)
    \/ MouseDownText(OnePoint)
    \/ MouseDownRectangle(OnePoint)
    \/ handleMouseMove(ClickPoints)
    \/ handleMouseUp
    \/ SetTool({"eraser", "text", "rectangle"})

SpecHistory ==
    /\ InitWith({CreatedContent, MalformedContent, JSONstringify(SavedScene)})
    /\ [][NextHistory]_vars

\* Mind map: nodes, connectors, and the ways to delete them.
NextMindMap ==
    \/ Load
    \/ undo
    \/ redo
    \/ clearCanvas
    \/ MouseDownSelect(ClickPoints)
    \/ MouseDownEraser(ClickPoints)
    \/ TouchStartEraser(ClickPoints)
    \/ MouseDownMindMap(OnePoint)
    \/ handleMouseUp
    \/ KeyDelete
    \/ SetTool({"select", "eraser", "mindmap"})
    \/ PanelAddNode

SpecMindMap ==
    /\ InitWith({CreatedContent, JSONstringify(SavedScene)})
    /\ [][NextMindMap]_vars

\* Persistence: every stored content, scene changes, the timer, the store.
NextSave ==
    \/ Load
    \/ undo
    \/ redo
    \/ clearCanvas
    \/ TimerFires
    \/ updateCanvas
    \/ SaveSettles

SpecSave == InitWith(StoredContents) /\ [][NextSave]_vars

\* Hit testing: scenes of every hit-testable kind, loaded and clicked at.
HitShapes(id) ==
    { RectangleShape(id, 0, 0, 10, 10),
      RectangleShape(id, 5, 5, 10, 10),
      RectangleShape(id, 20, 20, -10, -10),
      CircleShape(id, 12, 12, 5),
      TextShape(id, 0, 0, "a"),
      LineShape(id, <<0, 30, 20, 30>>) }

RECURSIVE HitScenesOf(_)
HitScenesOf(n) ==
    IF n = 0 THEN { <<>> }
    ELSE { Append(sc, s) : sc \in HitScenesOf(n - 1), s \in HitShapes(200 + n) }

HitScenes == UNION { HitScenesOf(n) : n \in 0..MaxHitShapes }

ProbePoints == {<<7, 7>>, <<0, 0>>, <<12, 12>>, <<15, 25>>, <<50, 50>>}

NextHitTest ==
    \/ Load
    \/ MouseDownSelect(ProbePoints)
    \/ handleMouseUp

SpecHitTest ==
    InitWith({JSONstringify(sc) : sc \in HitScenes}) /\ [][NextHitTest]_vars

\* Zoom: buttons and keys, the wheel, and two-finger gestures.
DeltaYs == {-100, 100, -6000, 6000}
WheelCenters == {<<0, 0>>}
PinchDistances == {0, 100, 200}
PinchCenters == {<<0, 0>>}

NextZoom ==
    \/ Load
    \/ zoomIn
    \/ zoomOut
    \/ resetView
    \/ handleWheel(DeltaYs, WheelCenters)
    \/ TouchStartTwo(PinchDistances, PinchCenters)
    \/ TouchMovePinch(PinchDistances, PinchCenters)
    \/ handleTouchEnd

SpecZoom == InitWith({CreatedContent}) /\ [][NextZoom]_vars

\* Pan: the view is dragged from PanFrom to DrawPoint and zoomed, and
\* rectangles are started by mouse and by touch at DrawPoint.
PanFrom == {<<100, 100>>}
DrawPoint == <<150, 150>>
ZoomInNotch == {-4000}

NextPan ==
    \/ Load
    \/ SetTool({"rectangle"})
    \/ KeySpaceDown
    \/ KeySpaceUp
    \/ MouseDownPan(PanFrom)
    \/ handleMouseMove({DrawPoint})
    \/ handleMouseUp
    \/ handleWheel(ZoomInNotch, WheelCenters)
    \/ resetView
    \/ MouseDownRectangle({DrawPoint})
    \/ TouchStartRectangle({DrawPoint})
    \/ handleTouchEnd

SpecPan == InitWith({CreatedContent}) /\ [][NextPan]_vars

\* Sticky notes: creation by mouse and touch on stages of several sizes,
\* and the text overlay.
StageSizes ==
    { [width |-> w, height |-> StageHeight] :
        w \in {0, 399, 400, 800, 2000} }

NextSticky ==
    \/ Load
    \/ updateSize(StageSizes)
    \/ SetTool({"sticky"})
    \/ MouseDownSticky(ClickPoints)
    \/ TouchStartSticky(ClickPoints)
    \/ updateStickyText
    \/ CancelStickyEdit

SpecSticky == InitWith({CreatedContent}) /\ [][NextSticky]_vars

\* Text entry: the four creations that ask for text, each with the text
\* given, left empty, or given up.
NextInput ==
    \/ Load
    \/ SetTool({"text", "sticky", "mindmap"})
    \/ MouseDownText(OnePoint)
    \/ MouseDownSticky(OnePoint)
    \/ updateStickyText
    \/ CancelStickyEdit
    \/ MouseDownMindMap(ClickPoints)
    \/ PanelAddNode

SpecInput == InitWith({CreatedContent}) /\ [][NextInput]_vars

\* Unmount: the persistence steps, with the editor closed at any moment.
NextUnmount ==
    \/ Load
    \/ undo
    \/ redo
    \/ clearCanvas
    \/ TimerFires
    \/ updateCanvas
    \/ SaveSettles
    \/ unmount

SpecUnmount == InitWith(StoredContents) /\ [][NextUnmount]_vars

\* Siblings: a mind map saved with a root and two children, stacked as
\* addMindMapChild stacks them, then erasing and adding children.
SiblingScene ==
    << MindMapNodeShape(101, -50, -25, 100, 50, "a", Null, TRUE),
       MindMapNodeShape(102, 150, -25, 80, 40, "a", 101, FALSE),
       ConnectorShape(103, 101, 102, <<50, 0, 150, -5>>),
       MindMapNodeShape(104, 150, 45, 80, 40, "a", 101, FALSE),
       ConnectorShape(105, 101, 104, <<50, 0, 150, 65>>) >>

NextSiblings ==
    \/ Load
    \/ SetTool({"eraser", "mindmap"})
    \/ MouseDownEraser(ClickPoints)
    \/ MouseDownMindMap(ClickPoints)
    \/ handleMouseUp
    \/ undo

SpecSiblings ==
    /\ InitWith({JSONstringify(SiblingScene), JSONstringify(SavedScene)})
    /\ [][NextSiblings]_vars

\* Drags: each drawing tool, pointer moves of whole-number length (100,
\* more than MaxPan: a pan that was started stays where it is), the
\* pointer released or leaving, and the middle button pressed meanwhile.
DrawTools == {"pen", "rectangle", "circle", "line"}
DragPoints == {<<0, 0>>, <<60, 80>>}

NextDrag ==
    \/ Load
    \/ SetTool(DrawTools)
    \/ MouseDownDraw(DrawTools, DragPoints)
    \/ MouseDownPan(OnePoint)
    \/ handleMouseMove(DragPoints)
    \/ handleMouseUp

SpecDrag == InitWith({CreatedContent}) /\ [][NextDrag]_vars

\* Remote changes: the document is patched by this editor's saves and by
\* another session, and the query delivers each new result.
RemoteContents == {CreatedContent, JSONstringify(SavedScene)}

NextRemote ==
    \/ Load
    \/ clearCanvas
    \/ undo
    \/ TimerFires
    \/ updateCanvas
    \/ SaveSettles
    \/ RemoteWrite(RemoteContents)
    \/ QueryUpdate

SpecRemote ==
    /\ InitWith({CreatedContent, MalformedContent, JSONstringify(SavedScene)})
    /\ [][NextRemote]_vars

\* Persistence with a store that never fails: scene changes, the timer
\* and saves of any duration, in every order.
NextPersist ==
    \/ Load
    \/ undo
    \/ redo
    \/ clearCanvas
    \/ TimerFires
    \/ updateCanvasOk
    \/ SaveSettles

SpecPersist ==
    /\ InitWith({CreatedContent, MalformedContent, JSONstringify(SavedScene),
                 Content("doc", SavedScene, 1)})
    /\ [][NextPersist]_vars

\* The tldraw-backed editor: the module load, the query results, the
\* mount and the user's changes, in every order.
NextTldraw ==
    \/ loadTldraw
    \/ loadTldrawFails
    \/ TldrawQueryResult
    \/ handleMount
    \/ TldrawUserChange
    \/ TldrawTimerFires

SpecTldraw ==
    /\ InitWith({CreatedContent})
    /\ [][NextTldraw]_vars

\* Round trip: every stored content is loaded, and the editor adds shapes of
\* the kinds that hold text, null and nested arrays.
NextRoundTrip ==
    \/ Load
    \/ SetTool({"text", "sticky", "mindmap"})
    \/ MouseDownText(OnePoint)
    \/ MouseDownSticky(OnePoint)
    \/ CancelStickyEdit
    \/ MouseDownMindMap(OnePoint)
    \/ PanelAddNode
    \/ clearCanvas
    \/ undo

SpecRoundTrip == InitWith(StoredContents) /\ [][NextRoundTrip]_vars

(* ----------------------------- properties ------------------------------ *)
CommitEvents == {"text", "sticky", "mindmapRoot", "mindmapChild",
                 "mouseUp:commit", "erase", "delete", "clearCanvas",
                 "updateStickyText"}
SceneChangeEvents == CommitEvents \cup {"undo", "redo"}
TimerEvents == {"timer:save", "timer:skip"}
Ids(shs) == {shs[i].id : i \in 1..Len(shs)}

\* C1: in every reachable state the history is non-empty and
\* 0 <= historyIndex <= Len(history) - 1.
C1_HistoryIndexInRange ==
    /\ Len(history) >= 1
    /\ 0 <= historyIndex
    /\ historyIndex <= Len(history) - 1

\* Two edits were committed and both undone.
C1_Witness ==
    lastEvent = "undo" /\ historyIndex = 0 /\ Len(history) = 3

\* C2: undo and redo restore the committed snapshots exactly.  A commit
\* stores the scene it commits at the new index and leaves every snapshot
\* up to the old index as it was; undo and redo leave the history as it is
\* and show the snapshot at the index they move to.
C2_UndoRedoRestoreSnapshots ==
    [][ /\ (lastEvent' \in CommitEvents =>
              /\ historyIndex' = historyIndex + 1
              /\ history'[historyIndex' + 1] = shapes'
              /\ \A i \in 1..(historyIndex + 1) : history'[i] = history[i])
        /\ (lastEvent' = "undo" =>
              /\ history' = history
              /\ historyIndex' = historyIndex - 1
              /\ shapes' = history[historyIndex' + 1])
        /\ (lastEvent' = "redo" =>
              /\ history' = history
              /\ historyIndex' = historyIndex + 1
              /\ shapes' = history[historyIndex' + 1])
      ]_vars

\* S1 and S2 were committed, undone to S1 and redone to S2.
C2_Witness ==
    /\ lastEvent = "redo"
    /\ Len(history) = 3 /\ historyIndex = 2
    /\ history[2] # history[3]
    /\ shapes = history[3]

\* C3: a commit truncates the history after the current index before it
\* appends: right after a commit the index is the last one and the entry
\* there is the committed scene, so redo has nothing to go to.
C3_CommitTruncates ==
    lastEvent \in CommitEvents =>
        /\ historyIndex = Len(history) - 1
        /\ history[Len(history)] = shapes

\* Ids 1, 2, 3 were handed out in turn; the scene with shape 2 was undone
\* and the commit of shape 3 took its place in the history.
C3_Witness ==
    /\ lastEvent \in CommitEvents
    /\ Len(history) = 3 /\ historyIndex = 2
    /\ 3 \in Ids(shapes)
    /\ \A i \in 1..3 : 2 \notin Ids(history[i])

\* C4: undo at index 0 and redo at the last index change nothing: the
\* scene, the history, the index and the pending timer stay, and no
\* error state is entered.
C4_BoundaryNoOps ==
    [][ /\ (lastEvent' \in {"undo", "undo:noop"} /\ historyIndex = 0 =>
              UNCHANGED <<sceneVars, timerVars>> /\ crashed' = FALSE)
        /\ (lastEvent' \in {"redo", "redo:noop"}
              /\ historyIndex = Len(history) - 1 =>
              UNCHANGED <<sceneVars, timerVars>> /\ crashed' = FALSE)
      ]_vars

\* Undo was asked for at index 0 of a history with entries to redo.
C4_Witness ==
    lastEvent = "undo:noop" /\ historyIndex = 0 /\ Len(history) = 3

\* The content the load effect parses: canvas.content || '{"shapes":[]}'.
LoadedContent ==
    IF storeContent.kind = "empty" THEN JSONstringify(<<>>) ELSE storeContent

\* The save call a timer holding the scene shs issues.
CallFor(shs) == [content |-> JSONstringify(shs), status |-> "sent"]

\* C5 as stated: at most one timer is pending, every scene change after
\* load replaces the pending timer by a new one, and the timer that fires
\* after a burst of scene changes issues exactly one save call, with the
\* serialization of the scene after the last change.
C5_BurstAlwaysSavesOnce ==
    [][ /\ Len(timers') <= 1
        /\ (lastEvent' \in SceneChangeEvents =>
              timers' = <<shapes'>> /\ saveTimeoutRef' = "live")
        /\ (lastEvent \in SceneChangeEvents /\ lastEvent' \in TimerEvents =>
              /\ saveCalls' = saveCalls + 1
              /\ inflight' = Append(inflight, CallFor(shapes)))
      ]_vars

\* C5, amended: at most one timer is pending, every scene change after
\* load replaces the pending timer by one holding the changed scene, and
\* the timer that fires issues exactly one save call with the
\* serialization of that scene if it differs from the last persisted
\* marker, and none if it is the same; nothing else issues a save call.
C5_DebounceCoalescing ==
    [][ /\ Len(timers') <= 1
        /\ (lastEvent' \in SceneChangeEvents =>
              timers' = <<shapes'>> /\ saveTimeoutRef' = "live")
        /\ (lastEvent' \in TimerEvents =>
              /\ timers' = <<>>
              /\ IF JSONstringify(Head(timers)) # lastSavedRef
                 THEN /\ saveCalls' = saveCalls + 1
                      /\ inflight' = Append(inflight, CallFor(Head(timers)))
                 ELSE /\ saveCalls' = saveCalls
                      /\ inflight' = inflight)
        /\ (lastEvent' \in TimerEvents /\ lastEvent \in SceneChangeEvents =>
              Head(timers) = shapes)
        /\ (lastEvent' \notin TimerEvents => saveCalls' = saveCalls)
      ]_vars

\* A burst of two commits ended and its one timer issued the save.
C5_Witness ==
    /\ lastEvent = "timer:save"
    /\ Len(history) = 3 /\ historyIndex = 2
    /\ saveCalls = 1
    /\ inflight = <<CallFor(shapes)>>

\* C6: a fired timer issues a save call only if the serialized scene
\* differs from lastSavedRef, the content last known to be persisted, and
\* skips it if they are the same; lastSavedRef is only ever set to the
\* loaded content (by the load) or to the content of a save that
\* succeeded (when it returns).
C6_SaveOnlyIfChanged ==
    [][ /\ (saveCalls' # saveCalls \/ Len(inflight') > Len(inflight) =>
              /\ lastEvent' = "timer:save"
              /\ inflight' = Append(inflight, CallFor(Head(timers)))
              /\ inflight'[Len(inflight')].content # lastSavedRef)
        /\ (lastEvent' = "timer:skip" =>
              /\ JSONstringify(Head(timers)) = lastSavedRef
              /\ inflight' = inflight)
        /\ (lastSavedRef' # lastSavedRef =>
              \/ /\ lastEvent' = "save:ok"
                 /\ Head(inflight).status = "ok"
                 /\ lastSavedRef' = Head(inflight).content
              \/ /\ lastEvent' \in {"load:shapes", "load:noShapes"}
                 /\ lastSavedRef' = LoadedContent)
        /\ (lastEvent' = "save:failed" => lastSavedRef' = lastSavedRef)
      ]_vars

\* A save succeeded, and a later timer with the same content was skipped.
C6_Witness ==
    /\ lastEvent = "timer:skip"
    /\ saveCalls >= 1
    /\ inflight = <<>>
    /\ lastSavedRef = storeContent
    /\ lastSavedRef = JSONstringify(shapes)

\* C7 as stated: while the user has made no edit (the history is still
\* the one entry the load left), no save timer is pending and no save
\* call has been issued, whatever content was stored.
C7_HydrateNeverSaves ==
    Len(history) = 1 /\ lastEvent \notin CommitEvents =>
        /\ timers = <<>>
        /\ saveCalls = 0
        /\ inflight = <<>>

\* Stored content that is not JSON, or that has no shapes array.
BadStored == storeContent.kind \in {"malformed", "object"}

\* C8: after a load of content that is not valid JSON or has no shapes
\* array the editor is not in an error state and the loading flag is
\* cleared; the load leaves the empty scene and the history [[]] at
\* index 0, and later commits are stored in the history after it.
C8_BadContentLoadsEmpty ==
    BadStored /\ canvas = "doc" =>
        /\ ~crashed
        /\ ~isLoadingRef
        /\ history[1] = <<>>
        /\ (lastEvent \in {"load:catch", "load:noShapes"} =>
              /\ shapes = <<>>
              /\ history = << <<>> >>
              /\ historyIndex = 0)
        /\ (lastEvent \in CommitEvents =>
              historyIndex >= 1 /\ history[historyIndex + 1] = shapes)

\* Stored text that is not JSON was loaded and a text shape was then added.
C8_Witness ==
    /\ storeContent = MalformedContent
    /\ canvas = "doc"
    /\ lastEvent = "text"
    /\ Len(shapes) = 1
    /\ history = << <<>>, shapes >>

\* The indices of the shapes a deletion of the shape id keeps.
Kept(before, id) ==
    {i \in 1..Len(before) :
        /\ before[i].id # id
        /\ \/ before[i].type # "connector"
           \/ (before[i].fromId # id /\ before[i].toId # id)}

\* after is before without the shape id and the connectors from or to it,
\* the other shapes in their order.
ExactRemoval(before, after, id) ==
    /\ Len(after) = Cardinality(Kept(before, id))
    /\ \A i \in Kept(before, id) :
         after[Cardinality({j \in Kept(before, id) : j <= i})] = before[i]

\* One entry was added to the history at the next index: the new scene.
CommittedOnce ==
    /\ historyIndex' = historyIndex + 1
    /\ Len(history') = historyIndex' + 1
    /\ history'[Len(history')] = shapes'
    /\ SubSeq(history', 1, historyIndex + 1) =
           SubSeq(history, 1, historyIndex + 1)

\* C9: erasing a hit shape (mouse or touch) or deleting the selected shape
\* (Delete / Backspace) removes exactly that shape and the connectors whose
\* fromId or toId is its id, keeps every other shape in order, and commits
\* the result to the history once.
C9_DeletionCascade ==
    [][ /\ (lastEvent' = "erase" =>
              /\ \E pos \in ClickPoints :
                   LET hit == findShapeAtPosition(shapes, pos)
                   IN  /\ hit # 0
                       /\ ExactRemoval(shapes, shapes', shapes[hit].id)
              /\ CommittedOnce)
        /\ (lastEvent' = "delete" =>
              /\ selectedId # Null
              /\ ExactRemoval(shapes, shapes', selectedId)
              /\ CommittedOnce)
      ]_vars

\* A mind-map node that had a child was erased: its connector went with
\* it and the child, still naming it as parent, stayed.
C9_Witness ==
    /\ lastEvent = "erase"
    /\ \E i \in 1..Len(shapes) :
         /\ shapes[i].type = "mindmapNode"
         /\ shapes[i].parentId # Null
         /\ shapes[i].parentId \notin Ids(shapes)
    /\ \A i \in 1..Len(shapes) : shapes[i].type # "connector"
    /\ \E i \in 1..Len(history[historyIndex]) :
         history[historyIndex][i].type = "connector"

\* C10: every connector of the scene has its fromId and its toId among
\* the ids of the shapes of the scene.
C10_NoDanglingConnectors ==
    \A i \in 1..Len(shapes) :
        shapes[i].type = "connector" =>
            /\ shapes[i].fromId \in Ids(shapes)
            /\ shapes[i].toId \in Ids(shapes)

\* An erase that took a node and its connector away was undone: the
\* connector is back, with both its ends.
C10_Witness ==
    /\ lastEvent = "undo"
    /\ \E i \in 1..Len(shapes) : shapes[i].type = "connector"
    /\ Len(history) > historyIndex + 1
    /\ \A i \in 1..Len(history[historyIndex + 2]) :
         history[historyIndex + 2][i].type # "connector"
    /\ Len(history[historyIndex + 2]) >= 1

\* The indices of the shapes of shs whose containment test accepts pos.
Accepting(shs, pos) == {i \in 1..Len(shs) : Contains(shs[i], pos)}

\* C11: a click with the select tool selects the shape with the greatest
\* scene index among the shapes whose containment test accepts the point,
\* and selects nothing exactly when no shape accepts it.
C11_TopmostWins ==
    [][ lastEvent' = "select" =>
          LET acc == Accepting(shapes, startPoint')
          IN  /\ (acc = {} <=> selectedId' = Null)
              /\ \A i \in acc :
                   (\A j \in acc : j <= i) => selectedId' = shapes[i].id
      ]_vars

\* Two overlapping rectangles were clicked where both are: the later one
\* is selected.
C11_Witness ==
    /\ lastEvent = "select"
    /\ Len(shapes) = 2
    /\ shapes[1].type = "rectangle" /\ shapes[2].type = "rectangle"
    /\ shapes[1] # shapes[2]
    /\ Contains(shapes[1], startPoint) /\ Contains(shapes[2], startPoint)
    /\ selectedId = shapes[2].id

\* C12: the zoom is within [0.1, 5] after every zoom-in, zoom-out, reset,
\* wheel and pinch step, and a request above or below the range yields
\* exactly the upper or the lower boundary.
C12_ZoomClamped ==
    [][ /\ zoom' >= MIN_ZOOM /\ zoom' <= MAX_ZOOM
        /\ (lastEvent' = "zoom:over" => zoom' = MAX_ZOOM)
        /\ (lastEvent' = "zoom:under" => zoom' = MIN_ZOOM)
      ]_vars

\* A pinch that closes the fingers to distance 0 asks for zoom 0.
C12_Witness ==
    /\ lastEvent = "zoom:under"
    /\ lastTouchDistance = 0 /\ lastTouchCenter # NoPoint
    /\ zoom = MIN_ZOOM

\* x is the quotient of num by den, rounded down.
IsQuotient(x, num, den) == x * den <= num /\ num < (x + 1) * den

\* C13: a rectangle started by mouse or by touch at screen point DrawPoint
\* is stored at the scene point (screen - panOffset) / zoom, so that
\* screen = scene * zoom + panOffset; with the view panned by (50,50) at
\* zoom 1 the rectangle started at (150,150) is stored at (100,100).
C13_PointerToScene ==
    [][ lastEvent' = "drawStart" =>
          /\ currentShape'.type = "rectangle"
          /\ IsQuotient(currentShape'.x,
                        (DrawPoint[1] - panOffset[1]) * 1000, zoom)
          /\ IsQuotient(currentShape'.y,
                        (DrawPoint[2] - panOffset[2]) * 1000, zoom)
          /\ startPoint' = <<currentShape'.x, currentShape'.y>>
          /\ (zoom = 1000 /\ panOffset = <<50, 50>> =>
                currentShape'.x = 100 /\ currentShape'.y = 100)
      ]_vars

\* The view was panned by (50,50) at zoom 1 and a rectangle started.
C13_Witness ==
    /\ lastEvent = "drawStart"
    /\ zoom = 1000 /\ panOffset = <<50, 50>>
    /\ currentShape # NoShape
    /\ currentShape.x = 100 /\ currentShape.y = 100

\* C14: a pointer-down with the sticky tool appends exactly one sticky
\* note, at the pointer's scene point, with a colour index in 0..5, width
\* in 120..280 and height in 100..220 (180 by 140 on a stage 800 wide),
\* commits it once, opens it for text editing and sets the tool to select.
C14_StickyCreation ==
    [][ lastEvent' = "sticky" =>
          /\ Len(shapes') = Len(shapes) + 1
          /\ SubSeq(shapes', 1, Len(shapes)) = shapes
          /\ LET note == shapes'[Len(shapes')]
             IN  /\ note.type = "sticky"
                 /\ note.id \notin Ids(shapes)
                 /\ <<note.x, note.y>> = startPoint'
                 /\ startPoint' \in ClickPoints
                 /\ note.colorIndex \in 0..5
                 /\ note.width >= 120 /\ note.width <= 280
                 /\ note.height >= 100 /\ note.height <= 220
                 /\ (stageSize.width = 800 =>
                       note.width = 180 /\ note.height = 140)
                 /\ note.text = ""
                 /\ editingSticky' = note.id
          /\ CommittedOnce
          /\ tool' = "select"
      ]_vars

\* A sticky note was put on a stage 800 wide.
C14_Witness ==
    /\ lastEvent = "sticky"
    /\ stageSize.width = 800
    /\ Len(shapes) = 2
    /\ shapes[2].type = "sticky" /\ shapes[2].width = 180
    /\ shapes[2].height = 140
    /\ editingSticky = shapes[2].id
    /\ tool = "select"

\* The contents that are the serialization of a scene.
Serialized == {JSONstringify(<<>>), JSONstringify(SavedScene)}

\* deserialize(serialize(S)) = S.
RoundTrip(S) ==
    LET parsed == JSONparse(JSONstringify(S))
    IN  ~parsed.threw /\ parsed.hasShapes /\ parsed.shapes = S

EditingNewSticky ==
    \E i \in 1..Len(shapes) :
        /\ shapes[i].id = editingSticky
        /\ shapes[i].type = "sticky"
        /\ shapes[i].text = ""

\* The text entry for a new sticky note ends with no text: the overlay is
\* closed or cancelled, or saved with the textarea empty.
StickyEntryGivenUp ==
    /\ editingSticky # Null /\ EditingNewSticky
    /\ editingSticky' = Null
    /\ \A i \in 1..Len(shapes') :
          shapes'[i].id = editingSticky => shapes'[i].text = ""

\* C16: when the text for a new text shape, mind-map root or mind-map child
\* is empty or its prompt is cancelled, the scene, the history and its
\* index are unchanged; when the text entry for a new sticky note is given
\* up, the note is neither in the scene nor in any history entry.
C16_InvalidInputIsCancel ==
    [][/\ (lastEvent' = "cancel" => UNCHANGED sceneVars)
       /\ (StickyEntryGivenUp =>
              /\ \A i \in 1..Len(shapes') : shapes'[i].id # editingSticky
              /\ \A h \in 1..Len(history') : \A i \in 1..Len(history'[h]) :
                    history'[h][i].id # editingSticky)]_vars

\* C17: Clear canvas leaves the scene empty, appends the empty scene to the
\* history after the current entry and moves the index to it, so that the
\* entry before it, the one undo goes to, is the scene that was cleared;
\* it sets the selection and the mind-map root reference to none.
C17_ClearCanvas ==
    [][lastEvent' = "clearCanvas" =>
          /\ shapes' = <<>>
          /\ historyIndex' = historyIndex + 1
          /\ Len(history') = historyIndex' + 1
          /\ history'[historyIndex' + 1] = <<>>
          /\ history'[historyIndex'] = shapes
          /\ SubSeq(history', 1, historyIndex') =
                SubSeq(history, 1, historyIndex + 1)
          /\ selectedId' = Null
          /\ mindMapRootId' = Null]_vars

\* A mind map with its root was cleared: the entry undo goes to holds the
\* root, and the root reference is none.
C17_Witness ==
    /\ lastEvent = "clearCanvas"
    /\ shapes = <<>>
    /\ historyIndex >= 1
    /\ \E i \in 1..Len(history[historyIndex]) :
          /\ history[historyIndex][i].type = "mindmapNode"
          /\ history[historyIndex][i].isRoot
    /\ mindMapRootId = Null

\* The mind-map nodes of a scene that are roots.
Roots(shs) ==
    {i \in 1..Len(shs) : shs[i].type = "mindmapNode" /\ shs[i].isRoot}

\* C18: the scene holds at most one mind-map node with isRoot = true.
C18_AtMostOneRoot == Cardinality(Roots(shapes)) <= 1

\* C19: the unmount leaves no timer pending, and from then on no timer is
\* pending and no updateCanvas call is issued.
C19_UnmountCancelsTimer ==
    [][/\ (lastEvent' = "unmount" => timers' = <<>>)
       /\ (~mounted => timers' = <<>> /\ saveCalls' = saveCalls)]_vars

\* The editor was unmounted while the timer of a scene change that had
\* not been saved was pending: the timer is gone and the change unsaved.
C19_Witness ==
    /\ ~mounted
    /\ lastEvent = "unmount"
    /\ saveTimeoutRef = "live"
    /\ timers = <<>>
    /\ historyIndex >= 1
    /\ JSONstringify(shapes) # lastSavedRef

\* The steps that change what the scene state holds, and so schedule a
\* save: the edits, undo and redo, and a load that sets the scene.
SchedulingEvents == SceneChangeEvents \cup {"load:shapes", "load:catch"}

\* The first timer to fire after a save failed with no timer pending: the
\* timer of the scene change that came after the failure.
FiresAfterFailure == failedIdle /\ timers # <<>> /\ timers' = Tail(timers)

\* C20 as stated: the timer of the first scene change after a failed save
\* always issues a save call.
C20_NextChangeAlwaysSaves ==
    [][FiresAfterFailure => lastEvent' = "timer:save"]_vars

\* C20 (amended): a failed save leaves lastSavedRef, the timers and the
\* number of calls as they were; a timer is only ever scheduled by a step
\* that changes the scene and a call is only ever issued by a timer that
\* fires; and the timer of the first scene change after the failure
\* issues a call for that scene exactly when its serialization differs
\* from lastSavedRef.
C20_FailedSaveNotRetried ==
    [][/\ (lastEvent' = "save:failed" =>
              /\ lastSavedRef' = lastSavedRef
              /\ UNCHANGED timerVars
              /\ saveCalls' = saveCalls
              /\ inflight' = Tail(inflight))
       /\ (timers' # timers /\ Len(timers') >= Len(timers) =>
              lastEvent' \in SchedulingEvents)
       /\ (saveCalls' # saveCalls =>
              lastEvent' = "timer:save" /\ timers # <<>>)
       /\ (FiresAfterFailure =>
              IF JSONstringify(Head(timers)) # lastSavedRef
              THEN /\ lastEvent' = "timer:save"
                   /\ inflight' = Append(inflight, CallFor(Head(timers)))
              ELSE /\ lastEvent' = "timer:skip"
                   /\ inflight' = inflight)]_vars

\* The first save failed (the store and lastSavedRef still hold the
\* content as it was loaded, which no save writes), the first call has
\* settled, and a timer has issued the second call.
C20_Witness ==
    /\ lastEvent = "timer:save"
    /\ saveCalls = 2
    /\ Len(inflight) = 1
    /\ inflight[1].status = "sent"
    /\ storeContent = Content("doc", SavedScene, 1)
    /\ lastSavedRef = storeContent
    /\ historyIndex >= 1
    /\ ~failedIdle

\* C21 as stated: right after clear canvas the history is the single
\* empty scene at index 0, and an undo then does nothing.
C21_ClearResetsHistory ==
    [][/\ (lastEvent' = "clearCanvas" =>
              Len(history') = 1 /\ historyIndex' = 0)
       /\ (lastEvent = "clearCanvas" /\ lastEvent' \in {"undo", "undo:noop"}
              => lastEvent' = "undo:noop")]_vars

\* C21 (amended): clear canvas keeps the history up to the current entry
\* and appends the empty scene, so right after it the history has at
\* least two entries, the index is that of the last one and at least 1,
\* and an undo then is not a no-op: it shows the scene that was cleared.
C21_ClearAppendsToHistory ==
    [][/\ (lastEvent' = "clearCanvas" =>
              /\ Len(history') = historyIndex + 2
              /\ Len(history') >= 2
              /\ historyIndex' = Len(history') - 1
              /\ historyIndex' >= 1)
       /\ (lastEvent = "clearCanvas" /\ lastEvent' \in {"undo", "undo:noop"}
              => /\ lastEvent' = "undo"
                 /\ shapes' = history[historyIndex]
                 /\ historyIndex' = historyIndex - 1)]_vars

\* A scene with a shape was cleared and the clear was undone: the shape is
\* back and the empty scene is the entry redo goes to.
C21_Witness ==
    /\ lastEvent = "undo"
    /\ shapes # <<>>
    /\ Len(history) = historyIndex + 2
    /\ history[historyIndex + 2] = <<>>

\* The shape the pointer position pos hits is a mind-map node.
HitsNode(shs, pos) ==
    LET hit == findShapeAtPosition(shs, pos)
    IN  hit # 0 /\ shs[hit].type = "mindmapNode"

\* C22: a mind-map click on a scene without a root asks for the root text
\* (it is never passed over as a click that missed the nodes) and, given
\* text, appends a root centered on the click; a mind-map click that hits
\* a node of a scene with a root never creates another root, and a child
\* created by a click has the hit node as its parent.
C22_RootWhenNoneChildWhenHit ==
    [][/\ (lastEvent' = "mindmapMiss" => Roots(shapes) # {})
       /\ (lastEvent' = "mindmapRoot" =>
              /\ ~(Roots(shapes) # {} /\ HitsNode(shapes, startPoint'))
              /\ Len(shapes') = Len(shapes) + 1
              /\ LET node == shapes'[Len(shapes')]
                 IN  /\ node.isRoot
                     /\ node.x = startPoint'[1] - node.width \div 2
                     /\ node.y = startPoint'[2] - node.height \div 2)
       /\ (lastEvent' = "mindmapChild" /\ startPoint' # startPoint =>
              /\ HitsNode(shapes, startPoint')
              /\ \E i \in 1..Len(shapes') :
                    /\ shapes'[i].type = "mindmapNode"
                    /\ shapes'[i].id \notin Ids(shapes)
                    /\ shapes'[i].parentId =
                         shapes[findShapeAtPosition(shapes, startPoint')].id)
      ]_vars

\* The mind-map nodes of shs whose parent is parentId.
ChildrenOf(shs, parentId) ==
    {i \in 1..Len(shs) :
        shs[i].type = "mindmapNode" /\ shs[i].parentId = parentId}

\* C23: a child created by a mind-map click is appended with its
\* connector in one commit, 100 to the right of its parent's right edge
\* and at a height no child of that parent in the scene has; the
\* connector runs from the parent's right-center to the child's
\* left-center.
C23_NewChildClearOfSiblings ==
    [][lastEvent' = "mindmapChild" =>
          /\ Len(shapes') = Len(shapes) + 2
          /\ SubSeq(shapes', 1, Len(shapes)) = shapes
          /\ CommittedOnce
          /\ LET node == shapes'[Len(shapes) + 1]
                 connector == shapes'[Len(shapes) + 2]
                 parent == shapes[FindById(shapes, node.parentId)]
             IN  /\ node.type = "mindmapNode" /\ ~node.isRoot
                 /\ node.x = parent.x + parent.width + 100
                 /\ \A i \in ChildrenOf(shapes, node.parentId) :
                       shapes[i].y # node.y
                 /\ connector.type = "connector"
                 /\ connector.fromId = parent.id
                 /\ connector.toId = node.id
                 /\ connector.points =
                       << parent.x + parent.width,
                          parent.y + parent.height \div 2,
                          node.x,
                          node.y + node.height \div 2 >>]_vars

\* A drag is under way: a shape is being drawn.
Dragging == isDrawing /\ currentShape # NoShape

\* The step is a run of handleMouseUp (pointer-up or pointer-leave).
PointerUp == lastEvent' \in {"mouseUp:commit", "mouseUp:none", "panEnd"}

\* C24: pointer-down with a drawing tool sets a current shape that is not
\* in the scene; a pointer-move of a drag leaves the scene, the history
\* and its index as they are; a pointer-up or pointer-leave during a drag
\* appends the current shape, commits once and clears the drag state; a
\* pointer-up right after that one adds nothing.
C24_DragCommitsOnce ==
    [][/\ (lastEvent' = "drawStart" =>
              /\ currentShape' # NoShape
              /\ currentShape'.id \notin Ids(shapes')
              /\ UNCHANGED sceneVars)
       /\ (Dragging /\ currentShape' # NoShape /\ lastEvent' # "drawStart"
              => UNCHANGED sceneVars)
       /\ (Dragging /\ PointerUp =>
              /\ lastEvent' = "mouseUp:commit"
              /\ shapes' = Append(shapes, currentShape)
              /\ CommittedOnce
              /\ ~isDrawing' /\ currentShape' = NoShape
              /\ startPoint' = NoPoint)
       /\ (lastEvent = "mouseUp:commit" /\ PointerUp =>
              UNCHANGED sceneVars)]_vars

\* The steps of the load effect, and of the store and the query.
LoadEvents == {"load:shapes", "load:catch", "load:noShapes"}
RemoteEvents == {"queryUpdate", "remoteWrite", "store:ok", "store:err"}

C26_SceneIsCurrentEntry ==
    /\ historyIndex + 1 \in 1..Len(history)
    /\ shapes = history[historyIndex + 1]

\* A drag is under way on a scene that an undo went back to: the shape
\* being drawn is not in the scene, which is the entry at the index, with
\* a later entry still there to redo.
C26_Witness ==
    /\ Dragging
    /\ currentShape.width # 0
    /\ historyIndex >= 1
    /\ historyIndex < Len(history) - 1
    /\ shapes = history[historyIndex + 1]
    /\ shapes # history[historyIndex + 2]

\* The user has changed the scene and stopped, no timer is pending and no
\* save is in flight.
Quiescent ==
    /\ canvas = "doc"
    /\ Len(history) >= 2
    /\ timers = <<>>
    /\ inflight = <<>>

\* C27: with every save succeeding, once the scene has been changed and
\* no timer is pending and no save is in flight, the store holds the
\* serialization of the scene and lastSavedRef is the store's content.
C27_EventuallyPersisted ==
    Quiescent =>
        /\ storeContent = JSONstringify(shapes)
        /\ lastSavedRef = storeContent

\* Points of the box spanned by the two ends of the drag that made the
\* rectangle r: the ends and the middle.
BoxProbes(r) ==
    { <<r.x, r.y>>,
      <<r.x + r.width, r.y + r.height>>,
      <<r.x + r.width \div 2, r.y + r.height \div 2>> }

\* C28: every rectangle of the scene is hit at the ends and the middle of
\* the drag that made it: findShapeAtPosition returns it, or a later
\* shape that covers the point.
C28_DraggedRectangleIsHit ==
    \A i \in 1..Len(shapes) :
        shapes[i].type = "rectangle" =>
            \A p \in BoxProbes(shapes[i]) :
                findShapeAtPosition(shapes, p) >= i

\* C29: the selected id is none or the id of a shape of the scene.
C29_SelectionInScene == selectedId = Null \/ selectedId \in Ids(shapes)

\* C30: in the tldraw-backed editor, once the module has loaded, the
\* query result has arrived and the editor has mounted, the initial
\* hydrate has run and the loading flag is clear; the hydrate runs at
\* most once and never after a document change of the user; and every
\* user change after the mount schedules a save.
C30_HydrateOnceBeforeChanges ==
    [][/\ (tldraw'.editor =>
               tldraw'.didInitialHydrate /\ ~tldraw'.isLoading)
       /\ tldraw'.hydrates <= 1
       /\ (tldraw'.hydrates > tldraw.hydrates => tldraw.changes = 0)
       /\ (tldraw'.changes > tldraw.changes =>
               tldraw'.scheduled > tldraw.scheduled)]_vars

====
